---------------------------- MODULE Spec2Model ----------------------------
(***************************************************************************)
(* Safety-stock calculation engine (SafetyStockCalculator, CSVParser) and  *)
(* the job orchestration of server/routes.ts.                              *)
(*                                                                         *)
(* Conventions of the model                                                *)
(*  - A JavaScript string is a sequence of one-character strings.          *)
(*  - A JavaScript number is a record [k, v]: k = "fin" with v the value   *)
(*    in units of 1/SCALE (fixed point), k = "inf" with v = 1 or -1, or    *)
(*    k = "nan".  Arithmetic follows IEEE-754 for the special values and   *)
(*    truncates finite results to the fixed-point grid.                    *)
(*  - A Date is its getTime() in whole minutes; the server's time zone is  *)
(*    taken to be UTC.                                                     *)
(***************************************************************************)
EXTENDS Integers, Sequences, FiniteSets, TLC

VARIABLES
    normArg,        \* argument handed to normInv
    normRes,        \* outcome of that call
    normMirror,     \* outcome of the call normInv(1 - normArg)
    historyData,    \* HistoryDataRow[] handed to the estimators
    itemMaster,     \* ItemMasterRow[]
    forecastData,   \* ForecastDataRow[]
    calls,          \* outcomes of the estimator calls made so far
    uploads,        \* uploads directory: field name -> file
    results,        \* results directory: file name -> file
    jobs,           \* the calculation objects ever made, by id
    timers,         \* ids of the processCalculation runs waiting on their timer
    seen,           \* progress last reported to a poll of each id
    reply,          \* the last HTTP reply
    page,           \* the page the browser tab shows
    sessionUser,    \* sessionStorage of the tab holds the key "user"
    localUser,      \* localStorage of the origin holds the key "user"
    user,           \* Home: the user state
    appState,       \* Home: 'upload', 'calculating' or 'results'
    uploadedFiles,  \* Home: the fields of uploadedFiles
    calculationId,  \* Home: calculationId, 0 for ''
    progress,       \* CalculationProgress: step of the query data, "" for none
    homeResults,    \* Home: the results state
    inflight        \* the request of the tab that awaits its response

normVars == <<normArg, normRes, normMirror>>
calcVars == <<historyData, itemMaster, forecastData, calls>>
serverVars == <<uploads, results, jobs, timers, seen, reply>>
homeVars == <<user, appState, uploadedFiles, calculationId, progress, homeResults>>
clientVars == <<page, sessionUser, localUser, homeVars, inflight>>
vars == <<normArg, normRes, normMirror, historyData, itemMaster, forecastData, calls,
          uploads, results, jobs, timers, seen, reply,
          page, sessionUser, localUser, user, appState, uploadedFiles, calculationId,
          progress, homeResults, inflight>>

---------------------------------------------------------------------------
(* JavaScript numbers                                                      *)

SCALE == 10^5

Fin(v) == [k |-> "fin", v |-> v]
NaN == [k |-> "nan", v |-> 0]
Inf(s) == [k |-> "inf", v |-> s]
Num(n) == Fin(n * SCALE)
Zero == Fin(0)
One == Fin(SCALE)

IsNaN(x) == x.k = "nan"
IsFinite(x) == x.k = "fin"
Abs(n) == IF n < 0 THEN -n ELSE n
Sgn(n) == IF n < 0 THEN -1 ELSE IF n > 0 THEN 1 ELSE 0
SignOf(x) == Sgn(x.v)

\* floor(a * b / SCALE) for a, b >= 0, without leaving 32 bits
MulFixAbs(a, b) ==
    LET ah == a \div 1000
        al == a % 1000
        bh == b \div 100
        bl == b % 100
    IN  ah * bh + (ah * bl * 10 + al * bh + (al * bl) \div 100) \div 1000

MulFix(a, b) == Sgn(a) * Sgn(b) * MulFixAbs(Abs(a), Abs(b))

RECURSIVE DivDigits(_, _, _)
DivDigits(r, y, n) ==
    IF n = 0 THEN 0
    ELSE ((r * 10) \div y) * 10^(n - 1) + DivDigits((r * 10) % y, y, n - 1)

\* floor(a * SCALE / b) for a >= 0, b > 0
DivFixAbs(a, b) == (a \div b) * SCALE + DivDigits(a % b, b, 5)

DivFix(a, b) == Sgn(a) * Sgn(b) * DivFixAbs(Abs(a), Abs(b))

RECURSIVE IsqrtBetween(_, _, _)
IsqrtBetween(n, lo, hi) ==
    IF lo >= hi THEN lo
    ELSE LET mid == (lo + hi + 1) \div 2
         IN  IF mid * mid <= n THEN IsqrtBetween(n, mid, hi)
             ELSE IsqrtBetween(n, lo, mid - 1)

Isqrt(n) == IsqrtBetween(n, 0, 46340)

\* floor(sqrt(a / SCALE) * SCALE) for a >= 0, as precisely as 32 bits allow
SqrtFix(a) ==
    IF a < 21474 THEN Isqrt(a * SCALE)
    ELSE IF a < 2147483 THEN Isqrt(a * 1000) * 10
    ELSE Isqrt(a * 10) * 100

LN2 == 69315

RECURSIVE LnNormalize(_, _)
\* <<m, e>> with a = m * 2^e and SCALE <= m < 2*SCALE
LnNormalize(a, e) ==
    IF a >= 2 * SCALE THEN LnNormalize(a \div 2, e + 1)
    ELSE IF a < SCALE THEN LnNormalize(a * 2, e - 1)
    ELSE <<a, e>>

\* ln(a / SCALE) * SCALE for a > 0: ln(m) = 2 atanh((m-1)/(m+1))
LnFix(a) ==
    LET me == LnNormalize(a, 0)
        m == me[1]
        z == DivFix(m - SCALE, m + SCALE)
        z2 == MulFix(z, z)
        z3 == MulFix(z, z2)
        z5 == MulFix(z3, z2)
        z7 == MulFix(z5, z2)
        z9 == MulFix(z7, z2)
    IN  me[2] * LN2 + 2 * (z + z3 \div 3 + z5 \div 5 + z7 \div 7 + z9 \div 9)

Neg(x) == IF x.k = "nan" THEN NaN ELSE [k |-> x.k, v |-> -x.v]

Add(x, y) ==
    IF IsNaN(x) \/ IsNaN(y) THEN NaN
    ELSE IF x.k = "inf" /\ y.k = "inf" THEN (IF x.v = y.v THEN x ELSE NaN)
    ELSE IF x.k = "inf" THEN x
    ELSE IF y.k = "inf" THEN y
    ELSE Fin(x.v + y.v)

Sub(x, y) == Add(x, Neg(y))

Mul(x, y) ==
    IF IsNaN(x) \/ IsNaN(y) THEN NaN
    ELSE IF x.k = "inf" \/ y.k = "inf"
         THEN (IF x.v = 0 \/ y.v = 0 THEN NaN ELSE Inf(Sgn(x.v) * Sgn(y.v)))
    ELSE Fin(MulFix(x.v, y.v))

Div(x, y) ==
    IF IsNaN(x) \/ IsNaN(y) THEN NaN
    ELSE IF x.k = "inf" THEN (IF y.k = "inf" THEN NaN
                              ELSE Inf(x.v * (IF y.v < 0 THEN -1 ELSE 1)))
    ELSE IF y.k = "inf" THEN Zero
    ELSE IF y.v = 0 THEN (IF x.v = 0 THEN NaN ELSE Inf(Sgn(x.v)))
    ELSE Fin(DivFix(x.v, y.v))

MathSqrt(x) ==
    IF IsNaN(x) \/ x.v < 0 THEN NaN
    ELSE IF x.k = "inf" THEN x
    ELSE Fin(SqrtFix(x.v))

MathLog(x) ==
    IF IsNaN(x) \/ x.v < 0 THEN NaN
    ELSE IF x.k = "inf" THEN x
    ELSE IF x.v = 0 THEN Inf(-1)
    ELSE Fin(LnFix(x.v))

MathFloor(x) == IF IsFinite(x) THEN Fin((x.v \div SCALE) * SCALE) ELSE x
MathCeil(x) == IF IsFinite(x) THEN Fin(-((-x.v) \div SCALE) * SCALE) ELSE x
MathRound(x) == IF IsFinite(x) THEN Fin(((x.v + SCALE \div 2) \div SCALE) * SCALE) ELSE x

\* x < y, x <= y, x > y of JavaScript: false as soon as one side is NaN
Rank(x) == IF x.k = "inf" THEN x.v * 2 ELSE 0
Lt(x, y) ==
    /\ ~IsNaN(x) /\ ~IsNaN(y)
    /\ \/ Rank(x) < Rank(y)
       \/ Rank(x) = Rank(y) /\ x.k = "fin" /\ x.v < y.v
Gt(x, y) == Lt(y, x)
Le(x, y) == ~IsNaN(x) /\ ~IsNaN(y) /\ ~Lt(y, x)

\* x || 0
OrZero(x) == IF IsNaN(x) \/ (x.k = "fin" /\ x.v = 0) THEN Zero ELSE x

---------------------------------------------------------------------------
(* SafetyStockCalculator.normInv                                           *)

a1 == -3969683
a2 == 22094610
a3 == -27592851
a4 == 13835775
a5 == -3066480
a6 == 250663
b1 == -5447610
b2 == 16158584
b3 == -15569898
b4 == 6680131
b5 == -1328068
c1 == -778
c2 == -32240
c3 == -240076
c4 == -254973
c5 == 437466
c6 == 293816
d1 == 778
d2 == 32247
d3 == 244513
d4 == 375441
pLow == 2425
pHigh == Sub(One, Fin(pLow))

\* (acc * q + c): one step of the Horner schemes of normInv
Horner(acc, q, c) == Add(Mul(acc, q), Fin(c))

TailNumerator(q) ==
    Horner(Horner(Horner(Horner(Horner(Fin(c1), q, c2), q, c3), q, c4), q, c5), q, c6)
TailDenominator(q) ==
    Add(Mul(Horner(Horner(Horner(Fin(d1), q, d2), q, d3), q, d4), q), One)
\* the numerator of the central branch without its factor q
CentralPolynomial(q, r) ==
    Horner(Horner(Horner(Horner(Horner(Fin(a1), r, a2), r, a3), r, a4), r, a5), r, a6)

CentralNumerator(q, r) ==
    Mul(Horner(Horner(Horner(Horner(Horner(Fin(a1), r, a2), r, a3), r, a4), r, a5), r, a6), q)
CentralDenominator(r) ==
    Add(Mul(Horner(Horner(Horner(Horner(Fin(b1), r, b2), r, b3), r, b4), r, b5), r), One)

\* the branch of normInv that evaluates p
normInvRegion(p) ==
    IF Lt(p, Zero) \/ Gt(p, One) THEN "throw"
    ELSE IF Lt(p, Fin(pLow)) THEN "low"
    ELSE IF Le(p, pHigh) THEN "central"
    ELSE "high"

\* the domain test with the end points taken out: p <= 0 || p >= 1
normInvThrowsClosed(p) == Le(p, Zero) \/ Le(One, p)

normInvThrows(p) == normInvRegion(p) = "throw"

\* a double next to p: residue is the sign of its distance from p, which is
\* below the resolution of the numbers here. pHigh = 1 - pLow is the double
\* 0.97575, and 1 - 0.97575 is the double 0.024249999999999994, just below
\* pLow: the tests p < pLow and p <= pHigh of normInv on it
normInvRegionNear(p, residue) ==
    IF Lt(p, Zero) \/ Gt(p, One) THEN "throw"
    ELSE IF Lt(p, Fin(pLow)) \/ (p = Fin(pLow) /\ residue < 0) THEN "low"
    ELSE IF Lt(p, pHigh) \/ (p = pHigh /\ residue <= 0) THEN "central"
    ELSE "high"

\* the value the branch of a region returns for p
normInvIn(region, p) ==
    CASE region = "low" ->
           LET q == MathSqrt(Mul(Num(-2), MathLog(p)))
           IN  Div(TailNumerator(q), TailDenominator(q))
      [] region = "central" ->
           LET q == Sub(p, Fin(SCALE \div 2))
               r == Mul(q, q)
           IN  Div(CentralNumerator(q, r), CentralDenominator(r))
      [] OTHER ->
           LET q == MathSqrt(Mul(Num(-2), MathLog(Sub(One, p))))
           IN  Div(Neg(TailNumerator(q)), TailDenominator(q))

\* the value normInv returns when it does not throw
normInv(p) == normInvIn(normInvRegion(p), p)

---------------------------------------------------------------------------
(* Strings                                                                 *)

Digits == <<"0", "1", "2", "3", "4", "5", "6", "7", "8", "9">>
IsDigit(c) == \E i \in 1..10 : Digits[i] = c
DigitVal(c) == (CHOOSE i \in 1..10 : Digits[i] = c) - 1
AllDigits(s) == \A i \in 1..Len(s) : IsDigit(s[i])

RECURSIVE ParseDigits(_)
\* parseInt(s, 10) of a string of digits
ParseDigits(s) ==
    IF s = <<>> THEN 0
    ELSE ParseDigits(SubSeq(s, 1, Len(s) - 1)) * 10 + DigitVal(s[Len(s)])

RECURSIVE Split(_, _)
\* s.split(sep) for a one-character separator
Split(s, sep) ==
    IF \A i \in 1..Len(s) : s[i] # sep THEN <<s>>
    ELSE LET i == CHOOSE j \in 1..Len(s) :
                      s[j] = sep /\ \A h \in 1..(j - 1) : s[h] # sep
         IN  <<SubSeq(s, 1, i - 1)>> \o Split(SubSeq(s, i + 1, Len(s)), sep)

RECURSIVE Trim(_)
Trim(s) ==
    IF s = <<>> THEN s
    ELSE IF s[1] = " " THEN Trim(Tail(s))
    ELSE IF s[Len(s)] = " " THEN Trim(SubSeq(s, 1, Len(s) - 1))
    ELSE s

---------------------------------------------------------------------------
(* Dates: the Date object of JavaScript, in minutes, time zone UTC         *)

MinutesPerDay == 1440

\* days since 1970-01-01 of the civil date y-m-d (m in 1..12)
DaysFromCivil(y, m, d) ==
    LET yy == IF m <= 2 THEN y - 1 ELSE y
        era == yy \div 400
        yoe == yy - era * 400
        mp == IF m > 2 THEN m - 3 ELSE m + 9
        doy == (153 * mp + 2) \div 5 + d - 1
        doe == yoe * 365 + yoe \div 4 - yoe \div 100 + doy
    IN  era * 146097 + doe - 719468

\* <<year, month (1..12), day>> of a day number
CivilFromDays(z0) ==
    LET z == z0 + 719468
        era == z \div 146097
        doe == z - era * 146097
        yoe == (doe - doe \div 1460 + doe \div 36524 - doe \div 146096) \div 365
        doy == doe - (365 * yoe + yoe \div 4 - yoe \div 100)
        mp == (5 * doy + 2) \div 153
        d == doy - (153 * mp + 2) \div 5 + 1
        m == IF mp < 10 THEN mp + 3 ELSE mp - 9
        y == yoe + era * 400 + (IF m <= 2 THEN 1 ELSE 0)
    IN  <<y, m, d>>

\* new Date(year, monthIndex, day): month and day overflow are carried over
NewDate(year, monthIndex, day) ==
    (DaysFromCivil(year + monthIndex \div 12, (monthIndex % 12) + 1, 1) + day - 1)
        * MinutesPerDay

\* d.toISOString().slice(0, 10): the UTC calendar day of d
iso(t) == CivilFromDays(t \div MinutesPerDay)

NoDate == [ok |-> FALSE, t |-> 0]
SomeDate(t) == [ok |-> TRUE, t |-> t]

\* the pattern /^(\d{1,2})\/(\d{1,2})\/(\d{2,4})$/
MatchesMMDDYYYY(s) ==
    LET parts == Split(s, "/")
    IN  /\ Len(parts) = 3
        /\ \A i \in 1..3 : AllDigits(parts[i])
        /\ Len(parts[1]) \in 1..2
        /\ Len(parts[2]) \in 1..2
        /\ Len(parts[3]) \in 2..4

\* new Date(s) for the ISO forms YYYY-MM-DD and YYYY-MM-DDTHH:MM; every other
\* text is an Invalid Date
DateFromString(s) ==
    LET dt == Split(s, "T")
        ymd == Split(dt[1], "-")
        hm == IF Len(dt) = 2 THEN Split(dt[2], ":") ELSE <<>>
        dateOk == /\ Len(ymd) = 3
                  /\ Len(ymd[1]) = 4 /\ Len(ymd[2]) = 2 /\ Len(ymd[3]) = 2
                  /\ \A i \in 1..3 : AllDigits(ymd[i])
                  /\ ParseDigits(ymd[2]) \in 1..12
                  /\ ParseDigits(ymd[3]) \in 1..31
        timeOk == \/ Len(dt) = 1
                  \/ /\ Len(dt) = 2
                     /\ Len(hm) = 2
                     /\ Len(hm[1]) = 2 /\ Len(hm[2]) = 2
                     /\ AllDigits(hm[1]) /\ AllDigits(hm[2])
                     /\ ParseDigits(hm[1]) \in 0..23
                     /\ ParseDigits(hm[2]) \in 0..59
        minutes == IF Len(dt) = 2
                   THEN ParseDigits(hm[1]) * 60 + ParseDigits(hm[2]) ELSE 0
    IN  IF dateOk /\ timeOk
        THEN SomeDate(NewDate(ParseDigits(ymd[1]), ParseDigits(ymd[2]) - 1,
                              ParseDigits(ymd[3])) + minutes)
        ELSE NoDate

\* SafetyStockCalculator.parseDate
parseDate(dateInput) ==
    IF dateInput = <<>> THEN NoDate
    ELSE LET s == Trim(dateInput)
         IN  IF MatchesMMDDYYYY(s)
             THEN LET m == Split(s, "/")
                      mm == ParseDigits(m[1])
                      dd == ParseDigits(m[2])
                      y0 == ParseDigits(m[3])
                      yyyy == IF y0 < 100 THEN y0 + 2000 ELSE y0
                  IN  SomeDate(NewDate(yyyy, mm - 1, dd))
             ELSE DateFromString(s)

---------------------------------------------------------------------------
(* SafetyStockCalculator.calculateHistoryBased                             *)

KeySep == "|"

\* `${r.ITEM_NAME}|${r.ORG_CODE}`
GroupKey(r) == r.ITEM_NAME \o <<KeySep>> \o r.ORG_CODE

RECURSIVE Distinct(_)
\* the elements of a sequence in first-seen order, each once
Distinct(s) ==
    IF s = <<>> THEN <<>>
    ELSE LET front == Distinct(SubSeq(s, 1, Len(s) - 1))
             last == s[Len(s)]
         IN  IF \E i \in 1..Len(front) : front[i] = last THEN front
             ELSE Append(front, last)

\* the keys of the Map `grouped`, in insertion order
GroupedKeys(data) == Distinct([i \in 1..Len(data) |-> GroupKey(data[i])])

\* grouped.get(key)
GroupedRows(data, key) == SelectSeq(data, LAMBDA r : GroupKey(r) = key)

\* const [itemName, orgCode] = key.split('|')
KeyItemName(key) == Split(key, KeySep)[1]
KeyOrgCode(key) == Split(key, KeySep)[2]

\* itemMaster.find(m => m.ITEM_NAME === itemName && m.ORG_CODE === orgCode)
MasterMatches(master, itemName, orgCode) ==
    {i \in 1..Len(master) :
        master[i].ITEM_NAME = itemName /\ master[i].ORG_CODE = orgCode}
HasMaster(master, itemName, orgCode) == MasterMatches(master, itemName, orgCode) # {}
FindMaster(master, itemName, orgCode) ==
    LET hits == MasterMatches(master, itemName, orgCode)
    IN  master[CHOOSE i \in hits : \A j \in hits : i <= j]

\* the rows loop of a group: one entry per row whose REF_DATE parseDate
\* accepts, holding parsed.getTime(), Number(r.REF_QTY) || 0 and, for the
\* forecast rows, Number(r.FORECAST_ERR_PERCENT)
RowEntry(r, parsed) ==
    [ok |-> parsed.ok, t |-> parsed.t, qty |-> OrZero(r.REF_QTY),
     err |-> IF "FORECAST_ERR_PERCENT" \in DOMAIN r THEN r.FORECAST_ERR_PERCENT ELSE Zero]
\* a rows loop that gives a row whose date does not parse the date of the
\* nearest row before it whose date parses
LastParsed(rows, i) ==
    CHOOSE j \in 1..i : /\ parseDate(rows[j].REF_DATE).ok
                        /\ \A k \in (j + 1)..i : ~parseDate(rows[k].REF_DATE).ok
FilledEntry(rows, i) ==
    IF \E j \in 1..i : parseDate(rows[j].REF_DATE).ok
    THEN RowEntry(rows[i], parseDate(rows[LastParsed(rows, i)].REF_DATE))
    ELSE RowEntry(rows[i], NoDate)
FilledRows(rows) ==
    SelectSeq([i \in 1..Len(rows) |-> FilledEntry(rows, i)], LAMBDA e : e.ok)

ValidRows(rows) ==
    SelectSeq([i \in 1..Len(rows) |-> RowEntry(rows[i], parseDate(rows[i].REF_DATE))],
              LAMBDA e : e.ok)

RECURSIVE SumSeq(_)
\* s.reduce((acc, v) => acc + v, 0); the sum is split in halves to keep the
\* evaluation shallow (additions on the fixed-point grid are exact)
SumSeq(s) ==
    IF s = <<>> THEN Zero
    ELSE IF Len(s) = 1 THEN Add(Zero, s[1])
    ELSE Add(SumSeq(SubSeq(s, 1, Len(s) \div 2)),
             SumSeq(SubSeq(s, Len(s) \div 2 + 1, Len(s))))

Quantities(valid) == [i \in 1..Len(valid) |-> valid[i].qty]
Times(valid) == {valid[i].t : i \in 1..Len(valid)}
MinOf(ts) == CHOOSE t \in ts : \A u \in ts : t <= u
MaxOf(ts) == CHOOSE t \in ts : \A u \in ts : t >= u
\* minDate and maxDate after the rows loop
MinTime(valid) == MinOf(Times(valid))
MaxTime(valid) == MaxOf(Times(valid))

\* new Date(d.getFullYear(), d.getMonth() + 1, 0): the last day of d's month
MonthEndOf(ymd) == NewDate(ymd[1], ymd[2], 0)
MonthEnd(t) == MonthEndOf(iso(t))

\* a duration that counts the first and the last day
HistoryDurationInclusive(minDate, maxMonthEnd) ==
    (maxMonthEnd - minDate) \div MinutesPerDay + 1

\* Math.floor((maxMonthEnd.getTime() - minDate.getTime()) / msPerDay)
HistoryDurationDays(minDate, maxMonthEnd) == (maxMonthEnd - minDate) \div MinutesPerDay

\* qtyArrays.get(isoCur): the quantities of the valid rows of that day
QtyArray(valid, day) == Quantities(SelectSeq(valid, LAMBDA e : iso(e.t) = day))

\* a loop that pushes nothing for a day without a record
OnlyRecorded(arr) == arr

\* samples.push(0) or one push per quantity of the day
SamplesOf(arr) == IF arr = <<>> THEN <<Zero>> ELSE arr

\* the first day of the second half of the days cur .. end
MidDay(cur, end) == cur + ((end - cur) \div (2 * MinutesPerDay) + 1) * MinutesPerDay

RECURSIVE SamplesFrom(_, _, _)
\* the while loop over cur <= end, cur advancing by one day: the samples of
\* the days cur .. end, in order (the range is split in halves to keep the
\* evaluation shallow)
SamplesFrom(valid, cur, end) ==
    IF cur > end THEN <<>>
    ELSE IF cur + MinutesPerDay > end THEN SamplesOf(QtyArray(valid, iso(cur)))
    ELSE SamplesFrom(valid, cur, MidDay(cur, end) - MinutesPerDay)
             \o SamplesFrom(valid, MidDay(cur, end), end)

\* new Date(d.getFullYear(), d.getMonth(), d.getDate()): midnight of d's day
MidnightOf(ymd) == NewDate(ymd[1], ymd[2] - 1, ymd[3])
DailySamples(valid, minDate, maxMonthEnd) ==
    SamplesFrom(valid, MidnightOf(iso(minDate)), MidnightOf(iso(maxMonthEnd)))

SquaredDeviations(samples, mean) ==
    [i \in 1..Len(samples) |-> Mul(Sub(samples[i], mean), Sub(samples[i], mean))]
MeanOf(samples) ==
    IF Len(samples) > 0 THEN Div(SumSeq(samples), Num(Len(samples))) ELSE Zero
\* population standard deviation of the samples
StdDev(samples) == MathSqrt(MeanOf(SquaredDeviations(samples, MeanOf(samples))))

ServiceLevelFrac(master) == Div(OrZero(master.SERVICE_LEVEL), Num(100))

Skip == [kind |-> "skip"]
Throw == [kind |-> "throw"]
Push(row) == [kind |-> "row", row |-> row]

\* ssDemand, totalSs, daysOfCover and results.push({...})
HistoryRow(itemName, orgCode, m, avgDailyQty, stdDev, serviceFactor, ssSup, ssDemand) ==
    [ITEM_NAME |-> itemName,
     ORG_CODE |-> orgCode,
     AVERAGE_DAILY_QTY |-> avgDailyQty,
     STD_DEV |-> stdDev,
     LEAD_TIME |-> OrZero(m.LEAD_TIME),
     SUPPLY_LEAD_TIME_VAR_DAYS |-> OrZero(m.SUPPLY_LEAD_TIME_VAR_DAYS),
     SERVICE_LEVEL |-> OrZero(m.SERVICE_LEVEL),
     SERVICE_FACTOR |-> serviceFactor,
     SS_SUP |-> ssSup,
     SS_DEMAND |-> ssDemand,
     TOTAL_SS |-> Add(ssSup, ssDemand),
     DAYS_OF_COVER |-> IF Gt(avgDailyQty, Zero)
                       THEN Div(Add(ssSup, ssDemand), avgDailyQty) ELSE Zero]

\* Math.ceil(stdDev * serviceFactor * Math.sqrt(leadTime + supplyVar))
SsDemand(m, stdDev, serviceFactor) ==
    MathCeil(Mul(Mul(stdDev, serviceFactor),
                 MathSqrt(Add(OrZero(m.LEAD_TIME), OrZero(m.SUPPLY_LEAD_TIME_VAR_DAYS)))))

\* the supply term rounded down
SsSupFloor(m, avgDailyQty) == MathFloor(Mul(avgDailyQty, OrZero(m.SUPPLY_LEAD_TIME_VAR_DAYS)))

\* Math.ceil(avgDailyQty * (Number(master.SUPPLY_LEAD_TIME_VAR_DAYS) || 0))
SsSup(m, avgDailyQty) == MathCeil(Mul(avgDailyQty, OrZero(m.SUPPLY_LEAD_TIME_VAR_DAYS)))

\* from stdDev and serviceFactor to the pushed row
HistoryStock(itemName, orgCode, m, avgDailyQty, stdDev, serviceFactor) ==
    HistoryRow(itemName, orgCode, m, avgDailyQty, stdDev, serviceFactor,
               SsSup(m, avgDailyQty), SsDemand(m, stdDev, serviceFactor))

\* from the duration check on, with minDate and maxMonthEnd known
HistoryRange(itemName, orgCode, m, valid, minDate, maxMonthEnd) ==
    IF HistoryDurationDays(minDate, maxMonthEnd) <= 0 THEN Skip
    ELSE IF normInvThrows(ServiceLevelFrac(m)) THEN Throw
    ELSE Push(HistoryStock(itemName, orgCode, m,
                 MathCeil(Div(SumSeq(Quantities(valid)),
                              Num(HistoryDurationDays(minDate, maxMonthEnd)))),
                 StdDev(DailySamples(valid, minDate, maxMonthEnd)),
                 normInv(ServiceLevelFrac(m))))

\* one iteration of the loop over the groups, after key.split('|'):
\* "skip" (continue), "throw" (normInv throws) or "row" (results.push)
HistoryKeyed(itemName, orgCode, valid, master) ==
    IF ~HasMaster(master, itemName, orgCode) THEN Skip
    ELSE IF valid = <<>> THEN Skip
    ELSE HistoryRange(itemName, orgCode, FindMaster(master, itemName, orgCode), valid,
                      MinTime(valid), MonthEnd(MaxTime(valid)))

HistoryGroup(key, rows, master) ==
    HistoryKeyed(KeyItemName(key), KeyOrgCode(key), ValidRows(rows), master)

Returned(rows) == [threw |-> FALSE, rows |-> rows]
Thrown == [threw |-> TRUE, rows |-> <<>>]

\* a results array that outlives the call: it still holds the rows of the
\* call before
KeptResults == IF calls = <<>> THEN <<>> ELSE calls[Len(calls)].out.rows

\* const results = []: a new array in every call
NewResults == <<>>

\* the rows pushed by the iterations, in order, unless one of them threw
Collect(outcomes) ==
    IF \E i \in 1..Len(outcomes) : outcomes[i].kind = "throw" THEN Thrown
    ELSE Returned(NewResults \o
                  [i \in 1..Len(SelectSeq(outcomes, LAMBDA g : g.kind = "row")) |->
                      SelectSeq(outcomes, LAMBDA g : g.kind = "row")[i].row])

\* Array.from(grouped.entries())
Entries(data, keys) ==
    [i \in 1..Len(keys) |-> [key |-> keys[i], rows |-> GroupedRows(data, keys[i])]]
Grouped(data) == Entries(data, GroupedKeys(data))

HistoryOutcomes(entries, master) ==
    [i \in 1..Len(entries) |-> HistoryGroup(entries[i].key, entries[i].rows, master)]

calculateHistoryBased(data, master) == Collect(HistoryOutcomes(Grouped(data), master))

---------------------------------------------------------------------------
(* SafetyStockCalculator.calculateForecastBased                            *)

\* Math.ceil((monthEnd.getTime() - parsed.getTime()) / msPerDay) of one row
CeilDays(minutes) == -((-minutes) \div MinutesPerDay)
ForecastRowDays(t) == CeilDays(MonthEnd(t) - t)

RECURSIVE SumInts(_)
SumInts(s) == IF s = <<>> THEN 0 ELSE SumInts(Tail(s)) + Head(s)

\* the smaller of two numbers, NaN as soon as one of them is NaN
Min2(x, y) == IF IsNaN(x) \/ IsNaN(y) THEN NaN ELSE IF Lt(x, y) THEN x ELSE y

\* the average of a non-empty list
ErrAverage(xs) == Div(SumSeq(xs), Num(Len(xs)))

RECURSIVE MathMin(_)
\* Math.min(...xs) of a non-empty list
MathMin(xs) == IF Len(xs) = 1 THEN xs[1] ELSE Min2(xs[1], MathMin(Tail(xs)))

ErrPercents(valid) == [i \in 1..Len(valid) |-> valid[i].err]

\* one duration for the whole group, from its earliest record to the end of
\* the month of its latest
SharedDurationDays(valid) ==
    IF valid = <<>> THEN 0 ELSE CeilDays(MonthEnd(MaxTime(valid)) - MinTime(valid))

TotalDurationDays(valid) == SumInts([i \in 1..Len(valid) |-> ForecastRowDays(valid[i].t)])

\* Math.round(1.25 * serviceFactor * (forecastErrPercent / 100) * Math.sqrt(30)
\*            * avgDailyFcst * Math.sqrt(leadTime))
SafetyStock(m, avgDailyFcst, forecastErrPercent, serviceFactor) ==
    MathRound(Mul(Mul(Mul(Mul(Mul(Fin(125000), serviceFactor),
                              Div(forecastErrPercent, Num(100))),
                          MathSqrt(Num(30))),
                      avgDailyFcst),
                  MathSqrt(OrZero(m.LEAD_TIME))))

\* daysOfCover and results.push({...})
ForecastRow(itemName, orgCode, m, avgDailyFcst, errPercent, serviceFactor, safetyStock) ==
    [ITEM_NAME |-> itemName,
     ORG_CODE |-> orgCode,
     AVG_DAILY_FCST |-> avgDailyFcst,
     FORECAST_ERR_PERCENT |-> errPercent,
     LEAD_TIME |-> OrZero(m.LEAD_TIME),
     SERVICE_LEVEL |-> OrZero(m.SERVICE_LEVEL),
     SERVICE_FACTOR |-> serviceFactor,
     SAFETY_STOCK |-> safetyStock,
     DAYS_OF_COVER |-> IF Gt(avgDailyFcst, Zero)
                       THEN MathRound(Div(safetyStock, avgDailyFcst)) ELSE Zero]

ForecastStock(itemName, orgCode, m, avgDailyFcst, forecastErrPercent, serviceFactor) ==
    ForecastRow(itemName, orgCode, m, avgDailyFcst, forecastErrPercent, serviceFactor,
                SafetyStock(m, avgDailyFcst, forecastErrPercent, serviceFactor))

\* from the duration check on, with totalDurationDays known
ForecastRange(itemName, orgCode, m, valid, totalDurationDays) ==
    IF totalDurationDays <= 0 THEN Skip
    ELSE IF normInvThrows(ServiceLevelFrac(m)) THEN Throw
    ELSE Push(ForecastStock(itemName, orgCode, m,
                 MathRound(Div(SumSeq(Quantities(valid)), Num(totalDurationDays))),
                 IF valid # <<>> THEN MathMin(ErrPercents(valid)) ELSE Zero,
                 normInv(ServiceLevelFrac(m))))

ForecastKeyed(itemName, orgCode, valid, master) ==
    IF ~HasMaster(master, itemName, orgCode) THEN Skip
    ELSE ForecastRange(itemName, orgCode, FindMaster(master, itemName, orgCode), valid,
                       TotalDurationDays(valid))

ForecastGroup(key, rows, master) ==
    ForecastKeyed(KeyItemName(key), KeyOrgCode(key), ValidRows(rows), master)

ForecastOutcomes(entries, master) ==
    [i \in 1..Len(entries) |-> ForecastGroup(entries[i].key, entries[i].rows, master)]

calculateForecastBased(data, master) == Collect(ForecastOutcomes(Grouped(data), master))

---------------------------------------------------------------------------
(* SafetyStockCalculator.calculateHistoryBased, the variant that joins the *)
(* key with '-' and reads REF_DATE with new Date(...)                      *)

LegacyKeySep == "-"
LegacyGroupKey(r) == r.ITEM_NAME \o <<LegacyKeySep>> \o r.ORG_CODE
LegacyGroupedKeys(data) == Distinct([i \in 1..Len(data) |-> LegacyGroupKey(data[i])])
LegacyGroupedRows(data, key) == SelectSeq(data, LAMBDA r : LegacyGroupKey(r) = key)
LegacyEntries(data, keys) ==
    [i \in 1..Len(keys) |-> [key |-> keys[i], rows |-> LegacyGroupedRows(data, keys[i])]]
LegacyGrouped(data) == LegacyEntries(data, LegacyGroupedKeys(data))

\* new Date(s) of the engine: month/day/year with a four-digit year is read
\* as a local date, the ISO forms as DateFromString reads them, every other
\* text is an Invalid Date
SlashDate(parts) ==
    IF /\ Len(parts[3]) = 4
       /\ ParseDigits(parts[1]) \in 1..12
       /\ ParseDigits(parts[2]) \in 1..31
    THEN SomeDate(NewDate(ParseDigits(parts[3]), ParseDigits(parts[1]) - 1,
                          ParseDigits(parts[2])))
    ELSE NoDate
DateOf(s) == IF MatchesMMDDYYYY(s) THEN SlashDate(Split(s, "/")) ELSE DateFromString(s)

RECURSIVE InsertDate(_, _)
\* one insertion of the sort: d moves left while the comparator
\* a.getTime() - b.getTime() is negative; with an Invalid Date it is NaN
InsertDate(s, d) ==
    IF s = <<>> THEN <<d>>
    ELSE IF d.ok /\ s[Len(s)].ok /\ d.t < s[Len(s)].t
         THEN Append(InsertDate(SubSeq(s, 1, Len(s) - 1), d), s[Len(s)])
    ELSE Append(s, d)

RECURSIVE SortDates(_)
\* dates.sort((a, b) => a.getTime() - b.getTime())
SortDates(ds) ==
    IF ds = <<>> THEN <<>>
    ELSE InsertDate(SortDates(SubSeq(ds, 1, Len(ds) - 1)), ds[Len(ds)])

LegacyDates(rows) == SortDates([i \in 1..Len(rows) |-> DateOf(rows[i].REF_DATE)])

\* new Date(maxDate.getFullYear(), maxDate.getMonth() + 1, 0)
LegacyMonthEnd(d) == IF d.ok THEN SomeDate(MonthEnd(d.t)) ELSE NoDate

\* Math.ceil((maxMonthEnd.getTime() - minDate.getTime()) / msPerDay)
LegacyDurationDays(minDate, maxMonthEnd) ==
    IF minDate.ok /\ maxMonthEnd.ok THEN Num(CeilDays(maxMonthEnd.t - minDate.t)) ELSE NaN

DigitChar(n) == <<"0", "1", "2", "3", "4", "5", "6", "7", "8", "9">>[n + 1]
RECURSIVE ToDigits(_)
\* n.toString() of a natural number
ToDigits(n) == IF n < 10 THEN <<DigitChar(n)>> ELSE Append(ToDigits(n \div 10), DigitChar(n % 10))
\* n.toString().padStart(2, '0')
PadStart2(s) == IF Len(s) < 2 THEN <<"0">> \o s ELSE s
\* `${month}/${day}/${year}` of the loop's current date
DateStr(ymd) ==
    PadStart2(ToDigits(ymd[2])) \o <<"/">> \o PadStart2(ToDigits(ymd[3])) \o <<"/">>
        \o ToDigits(ymd[1])

\* dailyData.push(matchingRow ? matchingRow.REF_QTY : 0)
LegacySampleOf(matching) == IF matching = <<>> THEN Zero ELSE matching[1].REF_QTY
LegacySample(rows, dateStr) ==
    LegacySampleOf(SelectSeq(rows, LAMBDA r : r.REF_DATE = dateStr))

RECURSIVE LegacySamplesFrom(_, _, _)
\* the while loop over currentDate <= endDate, one sample a day
LegacySamplesFrom(rows, cur, end) ==
    IF cur > end THEN <<>>
    ELSE IF cur + MinutesPerDay > end THEN <<LegacySample(rows, DateStr(iso(cur)))>>
    ELSE LegacySamplesFrom(rows, cur, MidDay(cur, end) - MinutesPerDay)
             \o LegacySamplesFrom(rows, MidDay(cur, end), end)

\* with an Invalid Date on either side currentDate <= endDate is false
LegacyDailyData(rows, minDate, maxMonthEnd) ==
    IF minDate.ok /\ maxMonthEnd.ok THEN LegacySamplesFrom(rows, minDate.t, maxMonthEnd.t)
    ELSE <<>>

\* sum / dailyData.length, without a guard on the length
LegacyMeanOf(samples) == Div(SumSeq(samples), Num(Len(samples)))
LegacyStdDev(samples) ==
    MathSqrt(LegacyMeanOf(SquaredDeviations(samples, LegacyMeanOf(samples))))

LegacyTotalQty(rows) == SumSeq([i \in 1..Len(rows) |-> rows[i].REF_QTY])

LegacyRow(itemName, orgCode, m, avgDailyQty, stdDev, serviceFactor, ssSup, ssDemand) ==
    [ITEM_NAME |-> itemName,
     ORG_CODE |-> orgCode,
     AVERAGE_DAILY_QTY |-> avgDailyQty,
     STD_DEV |-> stdDev,
     LEAD_TIME |-> m.LEAD_TIME,
     SUPPLY_LEAD_TIME_VAR_DAYS |-> m.SUPPLY_LEAD_TIME_VAR_DAYS,
     SERVICE_LEVEL |-> m.SERVICE_LEVEL,
     SERVICE_FACTOR |-> serviceFactor,
     SS_SUP |-> ssSup,
     SS_DEMAND |-> ssDemand,
     TOTAL_SS |-> Add(ssSup, ssDemand),
     DAYS_OF_COVER |-> Div(Add(ssSup, ssDemand), avgDailyQty)]

LegacyStock(itemName, orgCode, m, avgDailyQty, stdDev, serviceFactor) ==
    LegacyRow(itemName, orgCode, m, avgDailyQty, stdDev, serviceFactor,
              MathCeil(Mul(avgDailyQty, m.SUPPLY_LEAD_TIME_VAR_DAYS)),
              MathCeil(Mul(Mul(stdDev, serviceFactor),
                           MathSqrt(Add(m.LEAD_TIME, m.SUPPLY_LEAD_TIME_VAR_DAYS)))))

LegacyRange(itemName, orgCode, m, rows, minDate, maxMonthEnd) ==
    IF normInvThrows(Div(m.SERVICE_LEVEL, Num(100))) THEN Throw
    ELSE Push(LegacyStock(itemName, orgCode, m,
                 MathCeil(Div(LegacyTotalQty(rows), LegacyDurationDays(minDate, maxMonthEnd))),
                 LegacyStdDev(LegacyDailyData(rows, minDate, maxMonthEnd)),
                 normInv(Div(m.SERVICE_LEVEL, Num(100)))))

LegacyDated(itemName, orgCode, m, rows, dates) ==
    LegacyRange(itemName, orgCode, m, rows, dates[1], LegacyMonthEnd(dates[Len(dates)]))

LegacyKeyed(itemName, orgCode, rows, master) ==
    IF ~HasMaster(master, itemName, orgCode) THEN Skip
    ELSE LegacyDated(itemName, orgCode, FindMaster(master, itemName, orgCode), rows,
                     LegacyDates(rows))

LegacyGroup(key, rows, master) ==
    LegacyKeyed(Split(key, LegacyKeySep)[1], Split(key, LegacyKeySep)[2], rows, master)

LegacyOutcomes(entries, master) ==
    [i \in 1..Len(entries) |-> LegacyGroup(entries[i].key, entries[i].rows, master)]

calculateHistoryBasedLegacy(data, master) ==
    Collect(LegacyOutcomes(LegacyGrouped(data), master))

---------------------------------------------------------------------------
(* CSVParser: a CSV text is held as its lines, a line as its trimmed       *)
(* cells; the header cells are names, the other cells character strings    *)

\* the length of the longest prefix of s made of digits
RECURSIVE DigitsPrefix(_)
DigitsPrefix(s) ==
    IF s = <<>> \/ ~IsDigit(s[1]) THEN 0 ELSE 1 + DigitsPrefix(Tail(s))

Unsigned(s) == IF s # <<>> /\ s[1] \in {"-", "+"} THEN Tail(s) ELSE s
SignFactor(s) == IF s # <<>> /\ s[1] = "-" THEN -1 ELSE 1

\* the digits after a decimal point that follows the first n characters
FractionOf(s, n) ==
    IF Len(s) > n /\ s[n + 1] = "."
    THEN SubSeq(s, n + 2, n + 1 + DigitsPrefix(SubSeq(s, n + 2, Len(s))))
    ELSE <<>>

\* digits read as a fraction, cut to the grid of the numbers
FractionValue(ds) ==
    IF Len(ds) >= 5 THEN ParseDigits(SubSeq(ds, 1, 5))
    ELSE ParseDigits(ds) * 10^(5 - Len(ds))

UnsignedFloat(intDigits, fracDigits) ==
    IF intDigits = <<>> /\ fracDigits = <<>> THEN NaN
    ELSE Fin(ParseDigits(intDigits) * SCALE + FractionValue(fracDigits))

SignedNumber(sign, x) == IF IsNaN(x) \/ sign = 1 THEN x ELSE Neg(x)

UnsignedFloatOf(u) ==
    UnsignedFloat(SubSeq(u, 1, DigitsPrefix(u)), FractionOf(u, DigitsPrefix(u)))

\* parseFloat(s): the longest numeric prefix, NaN without one
parseFloat(s) == SignedNumber(SignFactor(s), UnsignedFloatOf(Unsigned(s)))

\* parseInt(s): the longest prefix of digits, NaN without one
parseInt(s) ==
    SignedNumber(SignFactor(s),
                 UnsignedFloat(SubSeq(Unsigned(s), 1, DigitsPrefix(Unsigned(s))), <<>>))

\* headers.indexOf(name), counted from 1
IndexOf(headers, name) ==
    CHOOSE i \in 1..Len(headers) : headers[i] = name /\ \A j \in 1..(i - 1) : headers[j] # name

\* requiredHeaders.filter(h => !headers.includes(h)).length > 0
MissingHeaders(csv, required) ==
    csv = <<>> \/ \E h \in required : \A i \in 1..Len(csv[1]) : csv[1][i] # h

\* the lines after the header that are not empty
DataLines(csv) == SelectSeq(Tail(csv), LAMBDA line : line # <<>>)

HistoryHeaders == {"ITEM_NAME", "ORG_CODE", "REF_DATE", "REF_QTY"}
HistoryRowOf(headers, values) ==
    [ITEM_NAME |-> values[IndexOf(headers, "ITEM_NAME")],
     ORG_CODE |-> values[IndexOf(headers, "ORG_CODE")],
     REF_DATE |-> values[IndexOf(headers, "REF_DATE")],
     REF_QTY |-> OrZero(parseFloat(values[IndexOf(headers, "REF_QTY")]))]
HistoryRowsOf(headers, lines) ==
    [i \in 1..Len(lines) |-> HistoryRowOf(headers, lines[i])]
parseHistoryData(csv) ==
    IF MissingHeaders(csv, HistoryHeaders) THEN Thrown
    ELSE Returned(HistoryRowsOf(csv[1], DataLines(csv)))

MasterHeaders ==
    {"ITEM_NAME", "ORG_CODE", "SUPPLY_LEAD_TIME_VAR_DAYS", "SERVICE_LEVEL", "LEAD_TIME"}
MasterRowOf(headers, values) ==
    [ITEM_NAME |-> values[IndexOf(headers, "ITEM_NAME")],
     ORG_CODE |-> values[IndexOf(headers, "ORG_CODE")],
     SUPPLY_LEAD_TIME_VAR_DAYS |->
         OrZero(parseInt(values[IndexOf(headers, "SUPPLY_LEAD_TIME_VAR_DAYS")])),
     SERVICE_LEVEL |-> OrZero(parseFloat(values[IndexOf(headers, "SERVICE_LEVEL")])),
     LEAD_TIME |-> OrZero(parseInt(values[IndexOf(headers, "LEAD_TIME")]))]
MasterRowsOf(headers, lines) ==
    [i \in 1..Len(lines) |-> MasterRowOf(headers, lines[i])]
parseItemMaster(csv) ==
    IF MissingHeaders(csv, MasterHeaders) THEN Thrown
    ELSE Returned(MasterRowsOf(csv[1], DataLines(csv)))

ForecastHeaders ==
    {"ITEM_NAME", "ORG_CODE", "REF_DATE", "REF_QTY", "ERROR_TYPE", "FORECAST_ERR_PERCENT"}
ForecastRowOf(headers, values) ==
    [ITEM_NAME |-> values[IndexOf(headers, "ITEM_NAME")],
     ORG_CODE |-> values[IndexOf(headers, "ORG_CODE")],
     REF_DATE |-> values[IndexOf(headers, "REF_DATE")],
     REF_QTY |-> OrZero(parseFloat(values[IndexOf(headers, "REF_QTY")])),
     ERROR_TYPE |-> values[IndexOf(headers, "ERROR_TYPE")],
     FORECAST_ERR_PERCENT |->
         OrZero(parseFloat(values[IndexOf(headers, "FORECAST_ERR_PERCENT")]))]
ForecastRowsOf(headers, lines) ==
    [i \in 1..Len(lines) |-> ForecastRowOf(headers, lines[i])]
parseForecastData(csv) ==
    IF MissingHeaders(csv, ForecastHeaders) THEN Thrown
    ELSE Returned(ForecastRowsOf(csv[1], DataLines(csv)))

---------------------------------------------------------------------------
(* routes.ts: the uploads and results directories, the calculations map    *)
(* and processCalculation                                                  *)

FieldNames == {"historyData", "itemMaster", "forecastData"}
ResultNames == {"SAFETY_STOCK_DATA", "SAFETY_STOCK_FCST_BASED"}

Absent == [exists |-> FALSE, lines |-> <<>>]
File(lines) == [exists |-> TRUE, lines |-> lines]
EmptyDir(names) == [n \in names |-> Absent]

NoResults == [set |-> FALSE, rows |-> <<>>]
Results(rows) == [set |-> TRUE, rows |-> rows]

\* calculations.set(calculationId, {id, status: 'pending', createdAt}); log
\* keeps every status the object has had, threw the estimator that raised
NewJob ==
    [status |-> "pending", log |-> <<"pending">>, historyResults |-> NoResults,
     forecastResults |-> NoResults, inMap |-> TRUE, threw |-> "none"]

\* calculation.status = s
SetStatus(job, s) == [job EXCEPT !.status = s, !.log = Append(@, s)]

\* a catch block that only logs the error
CaughtSilently(job) == job

\* the catch block of processCalculation: calculations.get(id) finds the
\* job unless clear-all has emptied the map
Caught(job) == IF job.inMap THEN SetStatus(job, "error") ELSE job

\* the status that is 0% for a failed job
ProgressZeroOnError(status) ==
    CASE status = "pending" -> 0
      [] status = "validation" -> 25
      [] status = "history-calc" -> 50
      [] status = "forecast-calc" -> 75
      [] status = "complete" -> 100
      [] OTHER -> 0

getProgressPercentage(status) ==
    CASE status = "pending" -> 0
      [] status = "validation" -> 25
      [] status = "history-calc" -> 50
      [] status = "forecast-calc" -> 75
      [] status = "complete" -> 100
      [] status = "error" -> 100
      [] OTHER -> 0

getProgressMessage(status) ==
    CASE status = "pending" -> "Initializing calculation..."
      [] status = "validation" -> "Validating input data..."
      [] status = "history-calc" -> "Calculating history-based safety stock..."
      [] status = "forecast-calc" -> "Calculating forecast-based safety stock..."
      [] status = "complete" -> "Calculation completed successfully"
      [] status = "error" -> "Calculation failed"
      [] OTHER -> "Unknown status"

\* fs.writeFileSync(path.join(resultsDir, name), csv) when there are rows
WriteResults(files, name, rows) ==
    IF rows # <<>> THEN [files EXCEPT ![name] = File(rows)] ELSE files

Finished(job, files) == [job |-> job, files |-> files]

\* 'complete' without the forecast results
ForecastCalcUnstored(job, files, out) == Finished(SetStatus(job, "complete"), files)

\* calculation.forecastResults = forecastResults, the file, 'complete'
ForecastCalc(job, files, out) ==
    IF out.threw THEN Finished(Caught([job EXCEPT !.threw = "forecast"]), files)
    ELSE Finished(SetStatus([job EXCEPT !.forecastResults = Results(out.rows)], "complete"),
                  WriteResults(files, "SAFETY_STOCK_FCST_BASED", out.rows))

ForecastParsed(job, files, master, parsed) ==
    IF parsed.threw THEN Finished(Caught(job), files)
    ELSE ForecastCalc(job, files, calculateForecastBased(parsed.rows, master))

\* if (fs.existsSync(forecastFilePath)) {...}; calculation.status = 'complete'
ForecastPhase(job, up, files, master) ==
    IF ~up["forecastData"].exists THEN Finished(SetStatus(job, "complete"), files)
    ELSE ForecastParsed(SetStatus(job, "forecast-calc"), files, master,
                        parseForecastData(up["forecastData"].lines))

\* calculation.historyResults = historyResults and the file
HistoryCalc(job, up, files, master, out) ==
    IF out.threw THEN Finished(Caught([job EXCEPT !.threw = "history"]), files)
    ELSE ForecastPhase([job EXCEPT !.historyResults = Results(out.rows)], up,
                       WriteResults(files, "SAFETY_STOCK_DATA", out.rows), master)

\* calculation.status = 'history-calc' and the history estimator
FilesParsed(job, up, files, history, master) ==
    IF history.threw \/ master.threw THEN Finished(Caught(job), files)
    ELSE HistoryCalc(SetStatus(job, "history-calc"), up, files, master.rows,
                     calculateHistoryBased(history.rows, master.rows))

\* processCalculation from the end of its wait on: fs.readFileSync throws
\* for a file that is not there
AfterWait(job, up, files) ==
    IF ~up["historyData"].exists \/ ~up["itemMaster"].exists
    THEN Finished(Caught(job), files)
    ELSE FilesParsed(job, up, files, parseHistoryData(up["historyData"].lines),
                     parseItemMaster(up["itemMaster"].lines))

NoReply == [route |-> "none"]

\* the server after start-up: empty directories, an empty map
ServerStarted ==
    /\ uploads = EmptyDir(FieldNames)
    /\ results = EmptyDir(ResultNames)
    /\ jobs = <<>>
    /\ timers = {}
    /\ seen = <<>>
    /\ reply = NoReply

NoRequest == [route |-> "none"]
NullResults == [route |-> "none"]
\* the initial values of the state of Home and of the query of
\* CalculationProgress
HomeUnmounted ==
    /\ user = FALSE
    /\ appState = "upload"
    /\ uploadedFiles = {}
    /\ calculationId = 0
    /\ progress = ""
    /\ homeResults = NullResults
\* no browser tab is open on the application
NoClient ==
    /\ page = "login"
    /\ sessionUser = FALSE
    /\ localUser = FALSE
    /\ HomeUnmounted
    /\ inflight = NoRequest

\* the parser the upload route runs on a field
ParseField(field, csv) ==
    CASE field = "historyData" -> parseHistoryData(csv)
      [] field = "itemMaster" -> parseItemMaster(csv)
      [] field = "forecastData" -> parseForecastData(csv)

---------------------------------------------------------------------------
(* Calls of normInv on a bounded grid of arguments                         *)

MaxP == 120     \* arguments range over -MaxP% .. 100% + MaxP%
PGrid == {Fin(n * (SCALE \div 1000)) : n \in -(MaxP * 10) .. (1000 + MaxP * 10)}
             \cup {Fin(pLow), pHigh, Fin(pLow - 1), Fin(SCALE - pLow + 1)}

NoCall == [done |-> FALSE, threw |-> FALSE, value |-> Zero]

NoMirror == [done |-> FALSE, region |-> "none", value |-> Zero]

NormInit ==
    /\ normArg \in PGrid
    /\ normRes = NoCall
    /\ normMirror = NoMirror
    /\ historyData = <<>>
    /\ itemMaster = <<>>
    /\ forecastData = <<>>
    /\ calls = <<>>
    /\ ServerStarted
    /\ NoClient

CallNormInv ==
    /\ ~normRes.done
    /\ normRes' = IF normInvThrows(normArg)
                  THEN [done |-> TRUE, threw |-> TRUE, value |-> Zero]
                  ELSE [done |-> TRUE, threw |-> FALSE, value |-> normInv(normArg)]
    /\ UNCHANGED <<normArg, normMirror, calcVars, serverVars, clientVars>>

\* 1 - p in doubles: the double next to the number 1 - p, at or on either
\* side of it; 1 - 0.97575 lies below 0.02425, and 1 - 0.02425 is 0.97575
ComplementResidues(p) ==
    IF p = pHigh THEN {-1} ELSE IF p = Fin(pLow) THEN {0} ELSE {-1, 0, 1}

MirrorOutcome(region, p) ==
    [done |-> TRUE, region |-> region,
     value |-> IF region = "throw" THEN Zero ELSE normInvIn(region, p)]

\* a caller evaluates normInv(1 - p) for the same argument p
CallNormInvOfComplement ==
    /\ ~normMirror.done
    /\ \E residue \in ComplementResidues(normArg) :
           normMirror' = MirrorOutcome(normInvRegionNear(Sub(One, normArg), residue),
                                       Sub(One, normArg))
    /\ UNCHANGED <<normArg, normRes, calcVars, serverVars, clientVars>>

NormNext == CallNormInv \/ CallNormInvOfComplement
NormSpec == NormInit /\ [][NormNext]_vars

---------------------------------------------------------------------------
(* Calls of the estimators on bounded inputs                               *)

\* the rows CSVParser builds
HistoryDataRow(item, org, date, qty) ==
    [ITEM_NAME |-> item, ORG_CODE |-> org, REF_DATE |-> date, REF_QTY |-> qty]
ItemMasterRow(item, org, leadTime, supplyVar, serviceLevel) ==
    [ITEM_NAME |-> item, ORG_CODE |-> org, LEAD_TIME |-> leadTime,
     SUPPLY_LEAD_TIME_VAR_DAYS |-> supplyVar, SERVICE_LEVEL |-> serviceLevel]
ForecastDataRow(item, org, date, qty, errPercent) ==
    [ITEM_NAME |-> item, ORG_CODE |-> org, REF_DATE |-> date, REF_QTY |-> qty,
     ERROR_TYPE |-> <<"M", "A", "P", "E">>, FORECAST_ERR_PERCENT |-> errPercent]

MaxRows == 2    \* longest input row sequence
MaxCalls == 2   \* estimator calls per behaviour

SeqsUpTo(S, n) == UNION {[1..k -> S] : k \in 0..n}

Jan15 == <<"0", "1", "/", "1", "5", "/", "2", "0", "2", "4">>
Jan31 == <<"0", "1", "/", "3", "1", "/", "2", "0", "2", "4">>
Feb10 == <<"2", "0", "2", "4", "-", "0", "2", "-", "1", "0">>
Jan15Noon == <<"2", "0", "2", "4", "-", "0", "1", "-", "1", "5", "T", "1", "2", ":", "0", "0">>
NotADate == <<"N", "/", "A">>

\* item names and org codes, two of them holding the key separator
NameA == <<"A">>
NameX == <<"X">>
NameY == <<"Y">>
NameAX == <<"A", "|", "X">>
NameXY == <<"X", "|", "Y">>

KeyedGroups == {<<NameA, NameX>>, <<NameA, NameY>>, <<NameAX, NameY>>, <<NameA, NameXY>>}
KeyedDates == {Jan15, Jan31, NotADate}
KeyedHistoryRows ==
    {HistoryDataRow(g[1], g[2], d, Num(40)) : g \in KeyedGroups, d \in KeyedDates}
KeyedForecastRows ==
    {ForecastDataRow(g[1], g[2], d, Num(40), Num(8)) : g \in KeyedGroups, d \in KeyedDates}
KeyedMasters ==
    {<<>>,
     <<ItemMasterRow(NameA, NameX, Num(7), Num(2), Num(95))>>,
     <<ItemMasterRow(NameA, NameY, Num(7), Num(2), Num(90))>>,
     <<ItemMasterRow(NameA, NameX, Num(7), Num(2), Num(95)),
       ItemMasterRow(NameA, NameY, Num(7), Num(2), Num(90))>>,
     <<ItemMasterRow(NameA, NameX, Num(7), Num(2), Num(95)),
       ItemMasterRow(NameA, NameY, Num(7), Num(2), Num(150))>>}

\* one group, every kind of master value
ServiceLevels == {Num(0), Num(10), Num(95), Num(100), Num(150), Num(-5)}
LeadTimes == {<<Num(7), Num(0)>>, <<Num(7), Fin(150000)>>}
NumericMasters ==
    {<<ItemMasterRow(NameA, NameX, lt[1], lt[2], sl)>> : lt \in LeadTimes, sl \in ServiceLevels}
NumericHistoryRows ==
    {HistoryDataRow(NameA, NameX, d, q) : d \in {Jan15, Jan15Noon, Jan31, Feb10, NotADate},
                                         q \in {Num(0), Num(40)}}
NumericForecastRows ==
    {ForecastDataRow(NameA, NameX, d, q, e) : d \in {Jan15, Jan31, NotADate},
                                             q \in {Num(0), Num(40)},
                                             e \in {Num(8), Num(12)}}

CalcInitOver(historyRows, forecastRows, masters) ==
    /\ normArg = Zero
    /\ normRes = NoCall
    /\ normMirror = NoMirror
    /\ itemMaster \in masters
    /\ \/ historyData \in SeqsUpTo(historyRows, MaxRows) /\ forecastData = <<>>
       \/ historyData = <<>> /\ forecastData \in SeqsUpTo(forecastRows, MaxRows)
    /\ calls = <<>>
    /\ ServerStarted
    /\ NoClient

KeyedInit == CalcInitOver(KeyedHistoryRows, KeyedForecastRows, KeyedMasters)
NumericInit == CalcInitOver(NumericHistoryRows, NumericForecastRows, NumericMasters)

\* a call of calculateHistoryBased(historyData, itemMaster); the arrays are
\* passed by reference and the estimator writes to neither
CallHistoryBased ==
    /\ Len(calls) < MaxCalls
    /\ calls' = Append(calls, [fn |-> "history", data |-> historyData,
                               master |-> itemMaster,
                               out |-> calculateHistoryBased(historyData, itemMaster)])
    /\ UNCHANGED <<normVars, historyData, itemMaster, forecastData, serverVars, clientVars>>

CallForecastBased ==
    /\ Len(calls) < MaxCalls
    /\ calls' = Append(calls, [fn |-> "forecast", data |-> forecastData,
                               master |-> itemMaster,
                               out |-> calculateForecastBased(forecastData, itemMaster)])
    /\ UNCHANGED <<normVars, historyData, itemMaster, forecastData, serverVars, clientVars>>

\* a call of the '-' keyed variant of calculateHistoryBased
CallHistoryBasedLegacy ==
    /\ Len(calls) < MaxCalls
    /\ calls' = Append(calls, [fn |-> "history-legacy", data |-> historyData,
                               master |-> itemMaster,
                               out |-> calculateHistoryBasedLegacy(historyData, itemMaster)])
    /\ UNCHANGED <<normVars, historyData, itemMaster, forecastData, serverVars, clientVars>>

RemoveAt(s, i) == SubSeq(s, 1, i - 1) \o SubSeq(s, i + 1, Len(s))

\* the caller hands over other rows on the next call: a row is taken out
RemoveHistoryRow ==
    /\ Len(calls) < MaxCalls
    /\ \E i \in 1..Len(historyData) : historyData' = RemoveAt(historyData, i)
    /\ UNCHANGED <<normVars, itemMaster, forecastData, calls, serverVars, clientVars>>

RemoveForecastRow ==
    /\ Len(calls) < MaxCalls
    /\ \E i \in 1..Len(forecastData) : forecastData' = RemoveAt(forecastData, i)
    /\ UNCHANGED <<normVars, itemMaster, historyData, calls, serverVars, clientVars>>

CalcNext ==
    \/ CallHistoryBased
    \/ CallHistoryBasedLegacy
    \/ CallForecastBased
    \/ RemoveHistoryRow
    \/ RemoveForecastRow

KeyedSpec == KeyedInit /\ [][CalcNext]_vars
NumericSpec == NumericInit /\ [][CalcNext]_vars

---------------------------------------------------------------------------
(* The HTTP routes of routes.ts and the timer of processCalculation        *)

MaxJobs == 2    \* calculations started per behaviour

HistoryCsv ==
    <<<<"ITEM_NAME", "ORG_CODE", "REF_DATE", "REF_QTY">>,
      <<NameA, NameX, Jan15, <<"4", "0">>>>>>
HistoryCsvNoQty ==
    <<<<"ITEM_NAME", "ORG_CODE", "REF_DATE">>, <<NameA, NameX, Jan15>>>>
MasterCsv(serviceLevel) ==
    <<<<"ITEM_NAME", "ORG_CODE", "SUPPLY_LEAD_TIME_VAR_DAYS", "SERVICE_LEVEL", "LEAD_TIME">>,
      <<NameA, NameX, <<"2">>, serviceLevel, <<"7">>>>>>
ForecastCsv ==
    <<<<"ITEM_NAME", "ORG_CODE", "REF_DATE", "REF_QTY", "ERROR_TYPE", "FORECAST_ERR_PERCENT">>,
      <<NameA, NameX, Jan15, <<"4", "0">>, <<"M", "A", "P", "E">>, <<"8">>>>>>

\* the texts a client uploads for a field
UploadTexts(field) ==
    CASE field = "historyData" -> {HistoryCsv, HistoryCsvNoQty}
      [] field = "itemMaster" -> {MasterCsv(<<"9", "5">>), MasterCsv(<<"1", "5", "0">>)}
      [] field = "forecastData" -> {ForecastCsv}

ServerInit ==
    /\ normArg = Zero
    /\ normRes = NoCall
    /\ normMirror = NoMirror
    /\ historyData = <<>>
    /\ itemMaster = <<>>
    /\ forecastData = <<>>
    /\ calls = <<>>
    /\ ServerStarted
    /\ NoClient

UploadReply(field, parsed) ==
    IF parsed.threw THEN [route |-> "upload", field |-> field, success |-> FALSE]
    ELSE [route |-> "upload", field |-> field, success |-> TRUE,
          recordCount |-> Len(parsed.rows)]

\* POST /api/upload with one field: the text is written, then parsed
Upload(field, csv) ==
    /\ uploads' = [uploads EXCEPT ![field] = File(csv)]
    /\ reply' = UploadReply(field, ParseField(field, csv))
    /\ UNCHANGED <<normVars, calcVars, clientVars, results, jobs, timers, seen>>

\* a calculate request that does not look for the files
CalculateUnchecked ==
    /\ Len(jobs) < MaxJobs
    /\ jobs' = Append(jobs, SetStatus(NewJob, "validation"))
    /\ timers' = timers \cup {Len(jobs) + 1}
    /\ seen' = Append(seen, 0)
    /\ reply' = [route |-> "calculate", code |-> 200, id |-> Len(jobs) + 1]
    /\ UNCHANGED <<normVars, calcVars, clientVars, uploads, results>>

\* POST /api/calculate: 400 without the two required files; else a new
\* object under a new id, which processCalculation takes to 'validation'
\* before it waits on its timer
Calculate ==
    IF ~uploads["historyData"].exists \/ ~uploads["itemMaster"].exists
    THEN /\ reply' = [route |-> "calculate", code |-> 400]
         /\ UNCHANGED <<normVars, calcVars, clientVars, uploads, results, jobs, timers, seen>>
    ELSE /\ Len(jobs) < MaxJobs
         /\ jobs' = Append(jobs, SetStatus(NewJob, "validation"))
         /\ timers' = timers \cup {Len(jobs) + 1}
         /\ seen' = Append(seen, 0)
         /\ reply' = [route |-> "calculate", code |-> 200, id |-> Len(jobs) + 1]
         /\ UNCHANGED <<normVars, calcVars, clientVars, uploads, results>>

Settle(id, finished) ==
    /\ jobs' = [jobs EXCEPT ![id] = finished.job]
    /\ results' = finished.files

\* the timer of a waiting processCalculation fires: the rest of the
\* function runs without yielding
TimerFires(id) ==
    /\ id \in timers
    /\ timers' = timers \ {id}
    /\ Settle(id, AfterWait(jobs[id], uploads, results))
    /\ UNCHANGED <<normVars, calcVars, clientVars, uploads, seen, reply>>

PollReply(id, job) ==
    [route |-> "poll", code |-> 200, id |-> id, step |-> job.status,
     progress |-> getProgressPercentage(job.status),
     message |-> getProgressMessage(job.status),
     historyResults |-> job.historyResults,
     forecastResults |-> job.forecastResults]

\* GET /api/calculate/:id
Poll(id) ==
    IF id <= Len(jobs) /\ jobs[id].inMap
    THEN /\ reply' = PollReply(id, jobs[id])
         /\ seen' = [seen EXCEPT ![id] = getProgressPercentage(jobs[id].status)]
         /\ UNCHANGED <<normVars, calcVars, clientVars, uploads, results, jobs, timers>>
    ELSE /\ reply' = [route |-> "poll", code |-> 404, id |-> id]
         /\ UNCHANGED <<normVars, calcVars, clientVars, uploads, results, jobs, timers, seen>>

\* the patterns of the two download routes after /api/download/:id/, in
\* the order of their registration; Express hands a request to the first
\* route whose pattern matches, and neither handler calls next()
DownloadRoutes == <<":type", "zip">>
Matches(pattern, segment) == pattern = ":type" \/ pattern = segment
RouteOf(segment) ==
    DownloadRoutes[CHOOSE i \in 1..Len(DownloadRoutes) :
                      /\ Matches(DownloadRoutes[i], segment)
                      /\ \A j \in 1..(i - 1) : ~Matches(DownloadRoutes[j], segment)]

NotFound(handler, id, segment) ==
    [route |-> "download", handler |-> handler, id |-> id, segment |-> segment,
     code |-> 404, entries |-> {}]
Sent(handler, id, segment, entries) ==
    [route |-> "download", handler |-> handler, id |-> id, segment |-> segment,
     code |-> 200, entries |-> entries]
Entry(name, rows) == [name |-> name, rows |-> rows]

\* the handler of /api/download/:id/:type
TypeReply(id, type) ==
    IF ~(id <= Len(jobs) /\ jobs[id].inMap) THEN NotFound(":type", id, type)
    ELSE IF type = "history" /\ jobs[id].historyResults.set
    THEN Sent(":type", id, type, {Entry("SAFETY_STOCK_DATA", jobs[id].historyResults.rows)})
    ELSE IF type = "forecast" /\ jobs[id].forecastResults.set
    THEN Sent(":type", id, type, {Entry("SAFETY_STOCK_FCST_BASED", jobs[id].forecastResults.rows)})
    ELSE NotFound(":type", id, type)

\* zip.file(name, ...) for the results of the job that have rows
ZipOfJob(job) ==
    {Entry("SAFETY_STOCK_DATA", job.historyResults.rows) : k \in {1 : z \in {job.historyResults.rows} \ {<<>>}}}
        \cup {Entry("SAFETY_STOCK_FCST_BASED", job.forecastResults.rows) : k \in {1 : z \in {job.forecastResults.rows} \ {<<>>}}}
\* zip.file(name, ...) for the files of the results directory
ZipOfFiles(files) == {Entry(n, files[n].lines) : n \in {m \in ResultNames : files[m].exists}}

\* the handler of /api/download/:id/zip
ZipReply(id) ==
    IF ~(id <= Len(jobs) /\ jobs[id].inMap)
    THEN (IF ZipOfFiles(results) # {} THEN Sent("zip", id, "zip", ZipOfFiles(results))
          ELSE NotFound("zip", id, "zip"))
    ELSE IF ZipOfJob(jobs[id]) # {} THEN Sent("zip", id, "zip", ZipOfJob(jobs[id]))
    ELSE NotFound("zip", id, "zip")

\* GET /api/download/:id/<segment>
Download(id, segment) ==
    /\ reply' = IF RouteOf(segment) = ":type" THEN TypeReply(id, segment) ELSE ZipReply(id)
    /\ UNCHANGED <<normVars, calcVars, clientVars, uploads, results, jobs, timers, seen>>

\* POST /api/clear-all: clearAllFiles empties both directories and the map;
\* a processCalculation that waits keeps its object
ClearAll ==
    /\ uploads' = EmptyDir(FieldNames)
    /\ results' = EmptyDir(ResultNames)
    /\ jobs' = [i \in 1..Len(jobs) |-> [jobs[i] EXCEPT !.inMap = FALSE]]
    /\ reply' = [route |-> "clear-all", code |-> 200]
    /\ UNCHANGED <<normVars, calcVars, clientVars, timers, seen>>

Next ==
    \/ \E field \in FieldNames : \E csv \in UploadTexts(field) : Upload(field, csv)
    \/ Calculate
    \/ \E id \in 1..MaxJobs : TimerFires(id)
    \/ \E id \in 1..MaxJobs : Poll(id)
    \/ \E id \in 1..MaxJobs : \E segment \in {"history", "forecast", "zip"} : Download(id, segment)
    \/ ClearAll

Spec == ServerInit /\ [][Next]_vars

---------------------------------------------------------------------------
(* The browser tab: the login page, Home and its components                *)

\* the files a user of the page chooses for a field
ClientTexts(field) ==
    CASE field = "historyData" -> {HistoryCsv}
      [] field = "itemMaster" -> {MasterCsv(<<"9", "5">>), MasterCsv(<<"1", "5", "0">>)}
      [] field = "forecastData" -> {ForecastCsv}

\* a tab opened on either page; sessionStorage is as the tab finds it
ClientInit ==
    /\ normArg = Zero
    /\ normRes = NoCall
    /\ normMirror = NoMirror
    /\ historyData = <<>>
    /\ itemMaster = <<>>
    /\ forecastData = <<>>
    /\ calls = <<>>
    /\ ServerStarted
    /\ page \in {"login", "home"}
    /\ sessionUser \in BOOLEAN
    /\ localUser = FALSE
    /\ HomeUnmounted
    /\ inflight = NoRequest

ServerIdle == UNCHANGED <<normVars, calcVars, serverVars>>
\* leaving the page drops the state of Home
HomeReset ==
    /\ user' = FALSE
    /\ appState' = "upload"
    /\ uploadedFiles' = {}
    /\ calculationId' = 0
    /\ progress' = ""
    /\ homeResults' = NullResults

\* handleLogin, with the answer of POST /api/login: on success the user
\* is saved and the tab goes to "/"; else only the error text changes
Login(ok) ==
    /\ page = "login"
    /\ IF ok
       THEN /\ localUser' = TRUE
            /\ page' = "home"
       ELSE UNCHANGED <<localUser, page>>
    /\ UNCHANGED <<sessionUser, homeVars, inflight>>
    /\ ServerIdle

\* the effect Home runs when it mounts
HomeMount ==
    /\ page = "home"
    /\ ~user
    /\ IF sessionUser
       THEN /\ user' = TRUE
            /\ page' = page
       ELSE /\ page' = "login"
            /\ user' = user
    /\ UNCHANGED <<sessionUser, localUser, appState, uploadedFiles, calculationId>>
    /\ UNCHANGED <<progress, homeResults, inflight>>
    /\ ServerIdle

\* the LogOut button
Logout ==
    /\ page = "home"
    /\ user
    /\ inflight = NoRequest
    /\ sessionUser' = FALSE
    /\ page' = "login"
    /\ HomeReset
    /\ UNCHANGED <<localUser, inflight>>
    /\ ServerIdle

Shown(state) == page = "home" /\ user /\ appState = state
\* fetch: the request leaves, its response is not there yet
Send(request) ==
    /\ inflight = NoRequest
    /\ inflight' = request
    /\ reply' = NoReply
    /\ UNCHANGED <<normVars, calcVars, uploads, results, jobs, timers, seen>>
    /\ UNCHANGED <<page, sessionUser, localUser, homeVars>>
Awaited(route) == inflight.route = route /\ reply = NoReply
Answered(route) == inflight.route = route /\ reply.route = route

\* a file dropped on the zone of a field: uploadFiles posts it
DropFile(field, csv) ==
    /\ Shown("upload")
    /\ Send([route |-> "upload", field |-> field, csv |-> csv])
ServeUpload ==
    /\ Awaited("upload")
    /\ Upload(inflight.field, inflight.csv)
\* uploadFiles after the response: a field with success is kept
UploadAnswered ==
    /\ Answered("upload")
    /\ uploadedFiles' = IF reply.success THEN uploadedFiles \cup {reply.field} ELSE uploadedFiles
    /\ inflight' = NoRequest
    /\ UNCHANGED <<page, sessionUser, localUser, user, appState, calculationId>>
    /\ UNCHANGED <<progress, homeResults>>
    /\ ServerIdle

\* the Start button, enabled with two files, runs startCalculation
StartCalculation ==
    /\ Shown("upload")
    /\ Cardinality(uploadedFiles) >= 2
    /\ Len(jobs) < MaxJobs
    /\ IF "historyData" \in uploadedFiles /\ "itemMaster" \in uploadedFiles
       THEN Send([route |-> "calculate"])
       ELSE inflight = NoRequest /\ UNCHANGED vars
ServeCalculate ==
    /\ Awaited("calculate")
    /\ Calculate
\* startCalculation after the response
CalculateAnswered ==
    /\ Answered("calculate")
    /\ reply.code = 200
    /\ calculationId' = reply.id
    /\ appState' = "calculating"
    /\ progress' = ""
    /\ inflight' = NoRequest
    /\ UNCHANGED <<page, sessionUser, localUser, user, uploadedFiles, homeResults>>
    /\ ServerIdle

\* the query of CalculationProgress fetches, at mount and then every
\* refetchInterval, which is false once the data has step 'complete'
Polling == Shown("calculating") /\ progress # "complete"
PollTick ==
    /\ Polling
    /\ Send([route |-> "poll", id |-> calculationId])
ServePoll ==
    /\ Awaited("poll")
    /\ Poll(inflight.id)
\* the data of the query and the effect of CalculationProgress, which
\* calls handleCalculationComplete of Home on step 'complete'
PollAnswered ==
    /\ Answered("poll")
    /\ inflight' = NoRequest
    /\ IF reply.code = 200
       THEN /\ progress' = reply.step
            /\ IF reply.step = "complete"
               THEN /\ homeResults' = reply
                    /\ appState' = "results"
               ELSE UNCHANGED <<homeResults, appState>>
       ELSE UNCHANGED <<progress, homeResults, appState>>
    /\ UNCHANGED <<page, sessionUser, localUser, user, uploadedFiles, calculationId>>
    /\ ServerIdle

\* startNewCalculation, the Start New Calculation button of the results
StartNewCalculation ==
    /\ Shown("results")
    /\ inflight = NoRequest
    /\ appState' = "upload"
    /\ uploadedFiles' = {}
    /\ calculationId' = 0
    /\ homeResults' = NullResults
    /\ progress' = ""
    /\ UNCHANGED <<page, sessionUser, localUser, user, inflight>>
    /\ ServerIdle

ClientNext ==
    \/ \E ok \in BOOLEAN : Login(ok)
    \/ HomeMount
    \/ Logout
    \/ \E field \in FieldNames : \E csv \in ClientTexts(field) : DropFile(field, csv)
    \/ ServeUpload
    \/ UploadAnswered
    \/ StartCalculation
    \/ ServeCalculate
    \/ CalculateAnswered
    \/ PollTick
    \/ ServePoll
    \/ PollAnswered
    \/ StartNewCalculation
    \/ \E id \in 1..MaxJobs : TimerFires(id)

ClientSpec == ClientInit /\ [][ClientNext]_vars

\* the timer of the query fires while it is set, the server answers a
\* poll it received, and the tab handles a response it received
ClientFairness == WF_vars(PollTick) /\ WF_vars(ServePoll) /\ WF_vars(PollAnswered)
ClientLiveSpec == ClientSpec /\ ClientFairness

---------------------------------------------------------------------------
(* Properties of normInv                                                   *)

\* C5: normInv(p) fails for every p < 0 and every p > 1, fails for no p with
\* 0 <= p <= 1, and a call changes nothing but its own result
C5_DomainError ==
    /\ [](normRes.done => (normRes.threw <=> (Lt(normArg, Zero) \/ Gt(normArg, One))))
    /\ [][CallNormInv => UNCHANGED <<normArg, calcVars, serverVars>>]_vars

\* a call with an argument above 1 has failed
C5_Witness == normRes.done /\ normRes.threw /\ Gt(normArg, One)

---------------------------------------------------------------------------
(* Properties of the estimator calls                                       *)

PairOf(r) == <<r.ITEM_NAME, r.ORG_CODE>>
Pairs(rows) == {PairOf(rows[i]) : i \in 1..Len(rows)}
RowsOfPair(rows, p) == SelectSeq(rows, LAMBDA r : PairOf(r) = p)
RowsOfOthers(rows, p) == SelectSeq(rows, LAMBDA r : PairOf(r) # p)
Range(s) == {s[i] : i \in 1..Len(s)}

\* the estimator a logged call ran, on other arguments
Estimate(fn, data, master) ==
    CASE fn = "history" -> calculateHistoryBased(data, master)
      [] fn = "forecast" -> calculateForecastBased(data, master)
      [] fn = "history-legacy" -> calculateHistoryBasedLegacy(data, master)

\* the calls of calculateHistoryBased and calculateForecastBased
Current(c) == c.fn \in {"history", "forecast"}
\* the key an estimator files a row under
KeyOf(fn, r) == IF fn = "history-legacy" THEN LegacyGroupKey(r) ELSE GroupKey(r)

MasterMatchIn(c) ==
    /\ \A p \in Pairs(c.data) \ Pairs(c.master) :
           Estimate(c.fn, RowsOfPair(c.data, p), c.master) = Returned(<<>>)
    /\ ~c.out.threw =>
           /\ Pairs(c.out.rows) \subseteq Pairs(c.master)
           /\ Len(c.out.rows) <= Cardinality(Pairs(c.data) \cap Pairs(c.master))

\* C1: every result row carries the item name and org code of a master row,
\* a group without a master row yields no row and no exception, and there
\* are at most as many rows as distinct groups with a master row
C1_MasterMatch == \A i \in 1..Len(calls) : Current(calls[i]) => MasterMatchIn(calls[i])

GroupingByPairIn(c) ==
    /\ \A i, j \in 1..Len(c.data) :
           (KeyOf(c.fn, c.data[i]) = KeyOf(c.fn, c.data[j]))
               <=> (PairOf(c.data[i]) = PairOf(c.data[j]))
    /\ ~c.out.threw => Pairs(c.out.rows) \subseteq Pairs(c.data)

\* C2: two rows share a group exactly when their item names and their org
\* codes are equal, and a result row carries the item name and org code of
\* the rows of its group, also when a name holds the key separator
C2_GroupingByPair == \A i \in 1..Len(calls) : GroupingByPairIn(calls[i])

NonNegative(x) == IsFinite(x) /\ x.v >= 0
InsideServiceLevels(row) ==
    Lt(Zero, row.SERVICE_LEVEL) /\ Lt(row.SERVICE_LEVEL, Num(100))
StockOf(fn, row) == IF fn = "forecast" THEN row.SAFETY_STOCK ELSE row.TOTAL_SS

NonNegativeIn(c) ==
    \A k \in 1..Len(c.out.rows) :
        InsideServiceLevels(c.out.rows[k]) =>
            /\ NonNegative(StockOf(c.fn, c.out.rows[k]))
            /\ NonNegative(c.out.rows[k].DAYS_OF_COVER)

\* C3: with a service level strictly between 0 and 100 and non-negative
\* quantities and lead times, the safety stock and the days of cover of
\* every result row are >= 0, also below a service level of 50
C3_NonNegative == \A i \in 1..Len(calls) : Current(calls[i]) => NonNegativeIn(calls[i])

FiniteIn(c) ==
    \A k \in 1..Len(c.out.rows) :
        /\ IsFinite(c.out.rows[k].SERVICE_FACTOR)
        /\ IsFinite(StockOf(c.fn, c.out.rows[k]))

\* C4: a service level of exactly 0 or 100 never reaches normInv as p = 0
\* or p = 1: no result row carries a non-finite service factor or safety
\* stock
C4_QuantileDomain == \A i \in 1..Len(calls) : Current(calls[i]) => FiniteIn(calls[i])

SameInputs(c, d) == c.fn = d.fn /\ c.data = d.data /\ c.master = d.master
IsCall == calls' # calls

FrameIn(c) ==
    \A p \in Pairs(c.master) :
        SelectSeq(c.out.rows, LAMBDA row : PairOf(row) = p)
            = Estimate(c.fn, RowsOfPair(c.data, p), c.master).rows

\* C9: the rows a call returns for a group are the rows the estimator
\* returns for that group's records alone, whatever records of other groups
\* the input holds
C9_Frame ==
    \A i \in 1..Len(calls) :
        (Current(calls[i]) /\ ~calls[i].out.threw) => FrameIn(calls[i])

Unparseable(rows) == \A k \in 1..Len(rows) : ~parseDate(rows[k].REF_DATE).ok
SameRows(out, other) == out.threw = other.threw /\ Range(out.rows) = Range(other.rows)

UnparseableGroupIn(c) ==
    \A p \in Pairs(c.data) :
        Unparseable(RowsOfPair(c.data, p)) =>
            /\ Estimate(c.fn, RowsOfPair(c.data, p), c.master) = Returned(<<>>)
            /\ SameRows(c.out, Estimate(c.fn, RowsOfOthers(c.data, p), c.master))

\* C10: a history group none of whose records has a parseable REF_DATE
\* yields no row and no exception, and the call returns the rows of the
\* other groups
C10_UnparseableGroup ==
    \A i \in 1..Len(calls) :
        calls[i].fn \in {"history", "history-legacy"} => UnparseableGroupIn(calls[i])

\* the same for calculateHistoryBased with parseDate alone
UnparseableGroupCurrent ==
    \A i \in 1..Len(calls) : calls[i].fn = "history" => UnparseableGroupIn(calls[i])

Parseable(rows) == SelectSeq(rows, LAMBDA r : parseDate(r.REF_DATE).ok)
GroupsOf(c) == Range(GroupedKeys(c.data))
\* the rows calculateHistoryBased returns for one group of a call's data
HistoryOf(c, key) == calculateHistoryBased(GroupedRows(c.data, key), c.master)
ReturnedIn(c, out) == c.out.threw \/ Range(out.rows) \subseteq Range(c.out.rows)

UnparsedIgnoredIn(c, key, rows) ==
    Parseable(rows) # <<>> =>
        /\ HistoryOf(c, key) = calculateHistoryBased(Parseable(rows), c.master)
        /\ ReturnedIn(c, calculateHistoryBased(Parseable(rows), c.master))

\* C11: in a history group with at least one record whose date parses, the
\* records whose date does not parse count for nothing: the rows returned
\* for the group are the rows returned for the group without those records
C11_UnparsedIgnored ==
    \A i \in 1..Len(calls) :
        calls[i].fn = "history" =>
            \A key \in GroupsOf(calls[i]) :
                UnparsedIgnoredIn(calls[i], key, GroupedRows(calls[i].data, key))

\* a call on one record that parses and one that does not has returned a row
C11_Witness ==
    \E i \in 1..Len(calls) :
        /\ calls[i].fn = "history"
        /\ Len(calls[i].data) = 2
        /\ Len(Parseable(calls[i].data)) = 1
        /\ Len(calls[i].out.rows) = 1

\* the calendar day of a date and the last day of that day's month
DayOf(t) == t \div MinutesPerDay
MonthOfDay(d) == CivilFromDays(d)[2]
LastDayOfMonth(d) ==
    CHOOSE e \in d..(d + 31) :
        /\ \A f \in d..e : MonthOfDay(f) = MonthOfDay(d)
        /\ MonthOfDay(e + 1) # MonthOfDay(d)
\* the day and the quantity of every record
RowDays(rows) == [i \in 1..Len(rows) |-> DayOf(parseDate(rows[i].REF_DATE).t)]
RowQtys(rows) == [i \in 1..Len(rows) |-> OrZero(rows[i].REF_QTY)]
FirstDay(days) == CHOOSE d \in Range(days) : \A e \in Range(days) : d <= e
LastDay(days) == LastDayOfMonth(CHOOSE d \in Range(days) : \A e \in Range(days) : d >= e)
\* the records of day d, in the order of the records
RecordsOn(days, d) == SelectSeq([i \in 1..Len(days) |-> i], LAMBDA i : days[i] = d)
QuantitiesOf(qtys, records) == [k \in 1..Len(records) |-> qtys[records[k]]]
EntriesOn(days, qtys, d) ==
    IF RecordsOn(days, d) = <<>> THEN <<Zero>> ELSE QuantitiesOf(qtys, RecordsOn(days, d))
\* the number of entries of the days before day d: one for each day, and
\* one more for each record after the first of its day
EntriesBefore(days, d) ==
    (d - FirstDay(days)) + Cardinality({i \in 1..Len(days) : days[i] < d})
        - Cardinality({e \in Range(days) : e < d})
WalkedByDay(series, days, qtys) ==
    /\ Len(series) = EntriesBefore(days, LastDay(days) + 1)
    /\ \A d \in FirstDay(days)..LastDay(days) :
           SubSeq(series, EntriesBefore(days, d) + 1, EntriesBefore(days, d + 1))
               = EntriesOn(days, qtys, d)

\* the daily series an estimator builds for the records of one group
SeriesFrom(valid) == DailySamples(valid, MinTime(valid), MonthEnd(MaxTime(valid)))
LegacySeriesFrom(rows, dates) ==
    LegacyDailyData(rows, dates[1], LegacyMonthEnd(dates[Len(dates)]))
SeriesOf(fn, rows) ==
    IF fn = "history" THEN SeriesFrom(ValidRows(rows))
    ELSE LegacySeriesFrom(rows, LegacyDates(rows))

\* a call on the records of one group, all with a date, that returned a row
OneDatedGroup(c) ==
    /\ c.fn \in {"history", "history-legacy"}
    /\ Cardinality(Pairs(c.data)) = 1
    /\ Parseable(c.data) = c.data
    /\ Len(c.out.rows) = 1

\* C12: the daily series of a history group walks every calendar day from
\* the day of the earliest record to the last day of the month of the
\* latest record; a day without a record gives one entry 0, a day with N
\* records gives N entries, the quantities of those records
C12_DailySeries ==
    \A i \in 1..Len(calls) :
        OneDatedGroup(calls[i]) =>
            WalkedByDay(SeriesOf(calls[i].fn, calls[i].data),
                        RowDays(calls[i].data), RowQtys(calls[i].data))

\* the same for calculateHistoryBased with the per-day quantity arrays
DailySeriesCurrent ==
    \A i \in 1..Len(calls) :
        (OneDatedGroup(calls[i]) /\ calls[i].fn = "history") =>
            WalkedByDay(SeriesOf(calls[i].fn, calls[i].data),
                        RowDays(calls[i].data), RowQtys(calls[i].data))

\* a call of calculateHistoryBased on the records of one group that
\* returned a row
OneGroupRow(c) ==
    c.fn = "history" /\ Cardinality(Pairs(c.data)) = 1 /\ Len(c.out.rows) = 1

InclusiveDays(days) == LastDay(days) - FirstDay(days) + 1
\* the records that share their day with a record before them
RepeatedDays(days) == Len(days) - Cardinality(Range(days))

SeriesLengthIn(c, days) ==
    /\ Len(SeriesOf(c.fn, c.data)) = InclusiveDays(days) + RepeatedDays(days)
    /\ InclusiveDays(days) >= 1

\* C13: for every history group that produces a row the daily series has
\* one entry for each calendar day from the day of the earliest record to
\* the last day of the month of the latest record, both included, and one
\* more entry for each record that shares its day with an earlier record;
\* the number of days is at least 1
C13_SeriesLength ==
    \A i \in 1..Len(calls) :
        OneGroupRow(calls[i]) => SeriesLengthIn(calls[i], RowDays(Parseable(calls[i].data)))

\* a call on two records of one day has returned a row
C13_Witness ==
    \E i \in 1..Len(calls) :
        /\ OneGroupRow(calls[i])
        /\ Len(Parseable(calls[i].data)) = 2
        /\ RepeatedDays(RowDays(Parseable(calls[i].data))) = 1

\* C13 as stated: the length of the daily series is the number of calendar
\* days, whatever the dates of the records
C13_LengthIsDays ==
    \A i \in 1..Len(calls) :
        OneGroupRow(calls[i]) =>
            Len(SeriesOf(calls[i].fn, calls[i].data))
                = InclusiveDays(RowDays(Parseable(calls[i].data)))

\* the time of every record, and the whole days from the earliest of them
\* to the start of the last day of the month of the latest
RowTimes(rows) == [i \in 1..Len(rows) |-> parseDate(rows[i].REF_DATE).t]
EarliestTime(times) == CHOOSE t \in Range(times) : \A u \in Range(times) : t <= u
SpanMinutes(times, days) == LastDay(days) * MinutesPerDay - EarliestTime(times)
WholeDays(minutes) ==
    CHOOSE d \in 0..62 : d * MinutesPerDay <= minutes /\ minutes < (d + 1) * MinutesPerDay

\* avg is the least whole number of units with avg * days >= total
IsCeilingOfQuotient(avg, total, days) ==
    /\ IsFinite(avg)
    /\ avg.v % SCALE = 0
    /\ (avg.v \div SCALE) * days * SCALE >= total.v
    /\ (avg.v \div SCALE - 1) * days * SCALE < total.v

AverageDailyIn(row, rows) ==
    IsCeilingOfQuotient(row.AVERAGE_DAILY_QTY, SumSeq(RowQtys(rows)),
                        WholeDays(SpanMinutes(RowTimes(rows), RowDays(rows))))

\* C14: AVERAGE_DAILY_QTY of a history row is the ceiling of the sum of the
\* quantities of the group's records with a date, divided by the whole
\* days from the earliest record date to the last day of the month of the
\* latest record date
C14_AverageDaily ==
    \A i \in 1..Len(calls) :
        OneGroupRow(calls[i]) =>
            AverageDailyIn(calls[i].out.rows[1], Parseable(calls[i].data))

\* a call has returned a row whose average is rounded up over a span that is
\* rounded down: from 15 January noon to 31 January there are 15 whole
\* days, and 80 units over 15 days is 6
C14_Witness ==
    \E i \in 1..Len(calls) :
        /\ OneGroupRow(calls[i])
        /\ calls[i].out.rows[1].AVERAGE_DAILY_QTY = Num(6)
        /\ \E k \in 1..Len(calls[i].data) : calls[i].data[k].REF_DATE = Jan15Noon

\* every record of the data that has a date is dated on the last day of
\* its month, all of them of one (item, organisation) pair
OnLastDays(days) == \A i \in 1..Len(days) : days[i] = LastDayOfMonth(days[i])
DegenerateGroup(c) ==
    /\ Cardinality(Pairs(c.data)) = 1
    /\ Parseable(c.data) # <<>>
    /\ OnLastDays(RowDays(Parseable(c.data)))
Skipped(c) == ~c.out.threw /\ c.out.rows = <<>>

\* C15: a history group whose valid records all fall on the last day of one
\* month (durationDays <= 0) is skipped: the estimator returns no row for
\* it and raises no exception
C15_DegenerateSkipped ==
    \A i \in 1..Len(calls) :
        calls[i].fn \in {"history", "history-legacy"} /\ DegenerateGroup(calls[i])
            => Skipped(calls[i])

\* the same for the estimator with the durationDays <= 0 guard alone
DegenerateSkippedCurrent ==
    \A i \in 1..Len(calls) :
        calls[i].fn = "history" /\ DegenerateGroup(calls[i]) => Skipped(calls[i])

\* ss is the least whole number of units that is >= avg * supplyVar, avg
\* being a whole number of units
IsCeilingOfProduct(ss, avg, supplyVar) ==
    /\ IsFinite(ss)
    /\ ss.v % SCALE = 0
    /\ ss.v >= (avg.v \div SCALE) * supplyVar.v
    /\ ss.v - SCALE < (avg.v \div SCALE) * supplyVar.v
MasterFieldsOf(row, m) ==
    /\ row.LEAD_TIME = m.LEAD_TIME
    /\ row.SUPPLY_LEAD_TIME_VAR_DAYS = m.SUPPLY_LEAD_TIME_VAR_DAYS
    /\ row.SERVICE_LEVEL = m.SERVICE_LEVEL
SupplyStockOf(row, m) ==
    /\ IsCeilingOfProduct(row.SS_SUP, row.AVERAGE_DAILY_QTY, m.SUPPLY_LEAD_TIME_VAR_DAYS)
    /\ row.TOTAL_SS = Add(row.SS_SUP, row.SS_DEMAND)
    /\ MasterFieldsOf(row, m)

\* C16: in every row of the history estimator SS_SUP is the ceiling of
\* AVERAGE_DAILY_QTY * SUPPLY_LEAD_TIME_VAR_DAYS, TOTAL_SS is SS_SUP +
\* SS_DEMAND, and LEAD_TIME, SUPPLY_LEAD_TIME_VAR_DAYS and SERVICE_LEVEL are
\* those of the item-master row of the row's item and organisation
C16_SupplyStock ==
    \A i \in 1..Len(calls) :
        calls[i].fn = "history" =>
            \A k \in 1..Len(calls[i].out.rows) :
                SupplyStockOf(calls[i].out.rows[k],
                              FindMaster(calls[i].master, calls[i].out.rows[k].ITEM_NAME,
                                         calls[i].out.rows[k].ORG_CODE))

\* a call has returned a row whose supply term is rounded up: an average
\* of 3 a day over 1.5 days of supply variance is 4.5, so SS_SUP is 5
C16_Witness ==
    \E i \in 1..Len(calls) :
        /\ calls[i].fn = "history"
        /\ Len(calls[i].out.rows) = 1
        /\ calls[i].out.rows[1].AVERAGE_DAILY_QTY = Num(3)
        /\ calls[i].out.rows[1].SUPPLY_LEAD_TIME_VAR_DAYS = Fin(150000)
        /\ calls[i].out.rows[1].SS_SUP = Num(5)
        /\ IsFinite(calls[i].out.rows[1].TOTAL_SS)

\* the average of a result row, and the calls whose one group has valid
\* records of total quantity 0 over a positive number of days
AverageOf(c, row) == IF c.fn = "history" THEN row.AVERAGE_DAILY_QTY ELSE row.AVG_DAILY_FCST
ServiceLevelsWithin(c, lo, hi) ==
    \A k \in 1..Len(c.master) :
        Le(lo, c.master[k].SERVICE_LEVEL) /\ Le(c.master[k].SERVICE_LEVEL, hi)
ZeroTotalGroup(c) ==
    /\ c.fn \in {"history", "forecast"}
    /\ Cardinality(Pairs(c.data)) = 1
    /\ Parseable(c.data) # <<>>
    /\ ~OnLastDays(RowDays(Parseable(c.data)))
    /\ SumSeq(RowQtys(Parseable(c.data))) = Zero
    /\ ServiceLevelsWithin(c, Zero, Num(100))
ZeroCoverRow(c) ==
    /\ ~c.out.threw
    /\ Len(c.out.rows) = 1
    /\ AverageOf(c, c.out.rows[1]) = Zero
    /\ c.out.rows[1].DAYS_OF_COVER = Zero
CoverFinite(c) ==
    \A k \in 1..Len(c.out.rows) : IsFinite(c.out.rows[k].DAYS_OF_COVER)

\* C17: a group whose average daily quantity or forecast is 0 still gets its
\* row, with DAYS_OF_COVER = 0 and without an error, and DAYS_OF_COVER is
\* neither NaN nor infinite in any row an estimator returns
C17_DaysOfCover ==
    \A i \in 1..Len(calls) :
        calls[i].fn \in {"history", "forecast"} =>
            /\ ZeroTotalGroup(calls[i]) => ZeroCoverRow(calls[i])
            /\ CoverFinite(calls[i])

\* the zero-average half of it, and the finite half for the service
\* levels from 1 to 99
ZeroAverageCovered ==
    \A i \in 1..Len(calls) : ZeroTotalGroup(calls[i]) => ZeroCoverRow(calls[i])
CoverFiniteInDomain ==
    \A i \in 1..Len(calls) :
        calls[i].fn \in {"history", "forecast"}
            /\ ServiceLevelsWithin(calls[i], Num(1), Num(99)) => CoverFinite(calls[i])

\* the least of the FORECAST_ERR_PERCENT values of the rows
ErrValues(rows) == {rows[i].FORECAST_ERR_PERCENT : i \in 1..Len(rows)}
LeastOf(values) == CHOOSE e \in values : \A f \in values : Le(e, f)
OneForecastRow(c) ==
    c.fn = "forecast" /\ Cardinality(Pairs(c.data)) = 1 /\ Len(c.out.rows) = 1
ErrPercentIn(row, m, least) ==
    /\ row.FORECAST_ERR_PERCENT = least
    /\ row.SAFETY_STOCK = SafetyStock(m, row.AVG_DAILY_FCST, least, row.SERVICE_FACTOR)

\* C18: FORECAST_ERR_PERCENT of a forecast row is the minimum of the
\* FORECAST_ERR_PERCENT values of the group's records whose date parses,
\* and SAFETY_STOCK is computed from this minimum
C18_MinErrPercent ==
    \A i \in 1..Len(calls) :
        OneForecastRow(calls[i]) =>
            ErrPercentIn(calls[i].out.rows[1],
                         FindMaster(calls[i].master, NameA, NameX),
                         LeastOf(ErrValues(Parseable(calls[i].data))))

\* the same with the minimum taken over all the records of the group
C18_MinOfGroup ==
    \A i \in 1..Len(calls) :
        OneForecastRow(calls[i]) =>
            ErrPercentIn(calls[i].out.rows[1],
                         FindMaster(calls[i].master, NameA, NameX),
                         LeastOf(ErrValues(calls[i].data)))

\* a call has returned the row of a group whose records have the values 12
\* and 8: FORECAST_ERR_PERCENT is 8 and SAFETY_STOCK is above 0
C18_Witness ==
    \E i \in 1..Len(calls) :
        /\ OneForecastRow(calls[i])
        /\ ErrValues(Parseable(calls[i].data)) = {Num(8), Num(12)}
        /\ calls[i].out.rows[1].FORECAST_ERR_PERCENT = Num(8)
        /\ Gt(calls[i].out.rows[1].SAFETY_STOCK, Zero)

\* the days from each record's day to the last day of its own month, summed
RemainingDays(days) == SumInts([i \in 1..Len(days) |-> LastDayOfMonth(days[i]) - days[i]])

\* avg is the whole number of units nearest to total / days, the upper one
\* of the two when total / days lies halfway
IsRoundedQuotient(avg, total, days) ==
    /\ IsFinite(avg)
    /\ avg.v % SCALE = 0
    /\ (2 * (avg.v \div SCALE) - 1) * days * SCALE <= 2 * total.v
    /\ 2 * total.v < (2 * (avg.v \div SCALE) + 1) * days * SCALE

OneForecastGroup(c) ==
    c.fn = "forecast" /\ Cardinality(Pairs(c.data)) = 1 /\ ~c.out.threw
AverageForecastIn(c, total, days) ==
    IF days <= 0 THEN c.out.rows = <<>>
    ELSE /\ Len(c.out.rows) = 1
         /\ IsRoundedQuotient(c.out.rows[1].AVG_DAILY_FCST, total, days)

\* C19: the forecast estimator divides the total quantity of a group's
\* records with a date by the sum, over these records, of the days from
\* the record's date to the end of its own month, and rounds: this is
\* AVG_DAILY_FCST; a group for which the sum of days is <= 0 gets no row
C19_RemainingDays ==
    \A i \in 1..Len(calls) :
        OneForecastGroup(calls[i]) =>
            AverageForecastIn(calls[i], SumSeq(RowQtys(Parseable(calls[i].data))),
                              RemainingDays(RowDays(Parseable(calls[i].data))))

\* a call has returned the row of two records of 15 January: 80 units over
\* 16 + 16 days is 2.5 a day, rounded to 3
C19_Witness ==
    \E i \in 1..Len(calls) :
        /\ OneForecastGroup(calls[i])
        /\ Len(calls[i].out.rows) = 1
        /\ RemainingDays(RowDays(Parseable(calls[i].data))) = 32
        /\ calls[i].out.rows[1].AVG_DAILY_FCST = Num(3)

---------------------------------------------------------------------------
(* Symmetry of normInv                                                     *)

Mirrored(region, other) ==
    \/ region = "low" /\ other = "high"
    \/ region = "high" /\ other = "low"
    \/ region = "central" /\ other = "central"
BothCalled == normRes.done /\ normMirror.done
InsideUnit(p) == Lt(Zero, p) /\ Lt(p, One)
SymmetricHere ==
    /\ Mirrored(normInvRegion(normArg), normMirror.region)
    /\ normRes.value = Neg(normMirror.value)

\* C20: for every p strictly between 0 and 1, p and 1 - p are evaluated by
\* mirrored branches of normInv (low tail with high tail, central with
\* central), the boundaries 0.02425 and 1 - 0.02425 included, and
\* normInv(p) = -normInv(1 - p)
C20_Symmetric == BothCalled /\ InsideUnit(normArg) => SymmetricHere

\* the same for every p but 1 - 0.02425
SymmetricOffBoundary ==
    BothCalled /\ InsideUnit(normArg) /\ normArg # pHigh => SymmetricHere

Half == Fin(SCALE \div 2)

\* C21: normInv(0.5) does not throw and returns 0; 0.5 is evaluated by the
\* central branch, whose result is a multiple of p - 0.5
C21_Median ==
    normRes.done /\ normArg = Half =>
        /\ normInvRegion(normArg) = "central"
        /\ ~normRes.threw
        /\ normRes.value = Zero

\* normInv(0.5) has been called
C21_Witness == normRes.done /\ normArg = Half /\ ~normRes.threw

---------------------------------------------------------------------------
(* Properties of the calculation jobs                                      *)

JobIds == 1..Len(jobs)

\* the results a job holds for the phase of an estimator
PhaseResults(job, phase) ==
    IF phase = "history" THEN job.historyResults ELSE job.forecastResults

\* a poll answered with the failed state and without rows for the phase
ReportsFailure(r, phase) ==
    /\ r.code = 200
    /\ r.step = "error"
    /\ r.message = "Calculation failed"
    /\ PhaseResults(r, phase) = NoResults

FailedIn(id) == jobs[id].threw # "none"

\* the job of an estimator that raised, while it is in the map
FailureKept(id) ==
    /\ PhaseResults(jobs[id], jobs[id].threw) = NoResults
    /\ "complete" \notin Range(jobs[id].log)
    /\ jobs[id].inMap => jobs[id].status = "error"

\* the answer to a poll of a job whose estimator raised
FailurePolled(id) ==
    Poll(id) /\ FailedIn(id) =>
        IF jobs[id].inMap THEN ReportsFailure(reply', jobs[id].threw)
        ELSE reply'.code = 404

Forward ==
    {<<"pending", "validation">>, <<"validation", "history-calc">>,
     <<"history-calc", "forecast-calc">>, <<"history-calc", "complete">>,
     <<"forecast-calc", "complete">>}
     \cup {<<s, "error">> : s \in {"pending", "validation", "history-calc", "forecast-calc"}}

\* the statuses an object has had: each step is forward, none comes twice
ForwardLog(log) ==
    /\ log[1] = "pending"
    /\ \A i \in 1..(Len(log) - 1) : <<log[i], log[i + 1]>> \in Forward
    /\ \A i, j \in 1..Len(log) : log[i] = log[j] => i = j
    /\ log[Len(log)] \in {"complete", "error"} => Len(log) > 1

\* C7: the status of every job moves only forward through pending,
\* validation, history-calc, forecast-calc (optional), complete, with
\* 'error' entered only from a status that is not terminal; no status is
\* revisited, nothing follows 'complete' or 'error', and the progress that
\* successive polls of one job see never decreases
C7_ForwardStatus ==
    /\ [](\A id \in JobIds : ForwardLog(jobs[id].log) /\ jobs[id].status = jobs[id].log[Len(jobs[id].log)])
    /\ [][\A id \in JobIds : seen'[id] >= seen[id]]_vars

\* a job has gone through every status to 'complete' and a poll has seen it
C7_Witness ==
    \E id \in JobIds :
        /\ jobs[id].log = <<"pending", "validation", "history-calc", "forecast-calc", "complete">>
        /\ seen[id] = 100
        /\ reply.route = "poll" /\ reply.id = id

---------------------------------------------------------------------------
(* Properties of the requests                                              *)

\* what the waiting job id computes if its timer fires with the uploads
\* directory up: its status, its results
OutcomeWith(id, up) == AfterWait(jobs[id], up, results).job

\* C22: an upload or a calculate request that arrives while a job waits
\* does not change what the job computes: the job works on the files that
\* were stored when its own request was accepted
C22_InputSnapshot ==
    [][\A id \in timers :
          reply'.route \in {"upload", "calculate"} /\ id \in timers'
              => OutcomeWith(id, uploads') = OutcomeWith(id, uploads)]_vars

\* C23: an upload that CSV validation rejects (success: false) leaves the
\* uploads directory as it was, so that no later calculation reads the
\* rejected file
C23_RejectedNotStored ==
    [][reply'.route = "upload" /\ ~reply'.success => uploads' = uploads]_vars

\* a job leaves the map in a clear-all only, and a poll of an id is
\* answered 404 exactly when clear-all has removed the job
LeavesByClearAll(id) == jobs[id].inMap /\ ~jobs'[id].inMap => reply'.route = "clear-all"
PolledAs(id) == reply.route = "poll" /\ reply.id = id => (reply.code = 404 <=> ~jobs[id].inMap)
\* a job that clear-all has removed writes nothing when its timer fires
ClearedIsSilent(id) ==
    ~jobs[id].inMap => jobs'[id] = jobs[id] /\ (id \in timers \ timers' => results' = results)

\* C24: a job is in the map from the reply that returns its id until
\* clear-all; after clear-all every earlier id is answered 404 and no job
\* started before it writes results or result files
C24_ClearAllEndsJobs ==
    /\ [](\A id \in JobIds : PolledAs(id))
    /\ [][\A id \in JobIds : LeavesByClearAll(id) /\ ClearedIsSilent(id)]_vars

\* the part of it about the map and the polls
ClearedJobsAnswer404 ==
    /\ [](\A id \in JobIds : PolledAs(id))
    /\ [][\A id \in JobIds : LeavesByClearAll(id)]_vars

HadForecastPhase(job) == \E k \in 1..Len(job.log) : job.log[k] = "forecast-calc"
ResultsSetIn(job) ==
    /\ job.status \in {"forecast-calc", "complete"} => job.historyResults.set
    /\ job.status = "complete" /\ HadForecastPhase(job) => job.forecastResults.set
PollCarriesResults(id) ==
    reply.route = "poll" /\ reply.id = id /\ reply.code = 200 /\ reply.step = "complete"
        => /\ reply.historyResults.set
           /\ HadForecastPhase(jobs[id]) => reply.forecastResults.set

\* C28: a job whose status is 'forecast-calc' or 'complete' has its
\* historyResults set, a job that is 'complete' after a forecast phase has
\* its forecastResults set, and a poll that reports 'complete' carries
\* these results
C28_ResultsBeforeStatus ==
    \A id \in JobIds : ResultsSetIn(jobs[id]) /\ PollCarriesResults(id)

\* a poll has reported 'complete' for a job with a forecast phase, with the
\* rows of both estimators
C28_Witness ==
    \E id \in JobIds :
        /\ reply.route = "poll" /\ reply.id = id /\ reply.code = 200
        /\ reply.step = "complete"
        /\ HadForecastPhase(jobs[id])
        /\ reply.historyResults.rows # <<>>
        /\ reply.forecastResults.rows # <<>>

RequiredFilesStored == uploads["historyData"].exists /\ uploads["itemMaster"].exists
Accepted == Len(jobs') = Len(jobs) + 1
Rejected == reply'.route = "calculate" /\ reply'.code = 400 /\ reply' # reply
OthersKept == \A id \in JobIds : jobs'[id] = jobs[id]
\* the new job when the reply is sent: created 'pending', taken to
\* 'validation' by processCalculation, which waits on its timer
StartedJob(job) == job.log = <<"pending", "validation">> /\ job.inMap
AcceptedStep ==
    /\ RequiredFilesStored
    /\ reply' = [route |-> "calculate", code |-> 200, id |-> Len(jobs) + 1]
    /\ StartedJob(jobs'[Len(jobs) + 1])
    /\ jobs'[Len(jobs) + 1].status = "validation"
    /\ OthersKept
    /\ timers' = timers \cup {Len(jobs) + 1}
RejectedStep == ~RequiredFilesStored /\ jobs' = jobs /\ timers' = timers /\ results' = results

\* C30: POST /api/calculate without the stored history file or item-master
\* file answers 400 and changes neither the jobs nor the timers; with both
\* files it adds exactly one job, created 'pending' and in 'validation'
\* when the reply with its id is sent, and no other job changes
C30_CalculateRequest ==
    [][/\ Rejected => RejectedStep
       /\ Accepted => AcceptedStep
       /\ reply'.route = "calculate" /\ reply' # reply => Rejected \/ Accepted]_vars

\* C30 as stated: the job has status 'pending' when its id is returned
C30_PendingOnReturn == [][Accepted => jobs'[Len(jobs) + 1].status = "pending"]_vars

\* a calculate request has been accepted: its job is in the map, in
\* 'validation', and waits on its timer
C30_Witness ==
    /\ reply.route = "calculate" /\ reply.code = 200
    /\ reply.id \in timers
    /\ StartedJob(jobs[reply.id])

HasRows(job) == job.historyResults.rows # <<>> \/ job.forecastResults.rows # <<>>
ZipAsked(id) ==
    /\ reply.route = "download" /\ reply.id = id /\ reply.segment = "zip"
    /\ jobs[id].inMap /\ HasRows(jobs[id])

\* C26: GET /api/download/:id/zip for a job with rows of history or
\* forecast results is answered by the zip handler, not by the handler of
\* the per-type route, with an archive of exactly the result files of
\* that job
C26_ZipOfJob ==
    \A id \in JobIds :
        ZipAsked(id) =>
            /\ reply.handler = "zip"
            /\ reply.code = 200
            /\ reply.entries = ZipOfJob(jobs[id])

\* what the zip handler answers for such a job when a request reaches it
ZipHandlerOfJob ==
    \A id \in JobIds :
        jobs[id].inMap /\ HasRows(jobs[id]) => ZipReply(id) = Sent("zip", id, "zip", ZipOfJob(jobs[id]))

---------------------------------------------------------------------------
(* Properties of the browser tab                                           *)

BatchOf(id) == appState \in {"calculating", "results"} /\ calculationId = id

\* C25: the forecast phase is optional per batch: a calculation the page
\* started with no forecast file among the files of its batch, as after
\* Start New Calculation with history and master only, completes with no
\* forecast phase and no forecast results
C25_ForecastPerBatch ==
    \A id \in JobIds :
        BatchOf(id) /\ jobs[id].status = "complete" /\ "forecastData" \notin uploadedFiles
            => ~HadForecastPhase(jobs[id]) /\ ~jobs[id].forecastResults.set

Terminal(id) == id \in JobIds /\ jobs[id].status \in {"complete", "error"}
Ended(id, status) == id \in JobIds /\ jobs[id].status = status
Watching(id) == Shown("calculating") /\ calculationId = id

\* C27: once the job the page polls has reached a terminal status,
\* 'complete' or 'error', the page eventually stops polling and leaves
\* the 'calculating' view
C27_PollingEnds ==
    \A id \in 1..MaxJobs : (Watching(id) /\ Terminal(id)) ~> (~Polling /\ ~Shown("calculating"))

\* the same for the status 'complete' alone
PollingEndsOnComplete ==
    \A id \in 1..MaxJobs : (Watching(id) /\ Ended(id, "complete")) ~> (~Polling /\ ~Shown("calculating"))

LoginSucceeds == page = "login" /\ page' = "home"
HomeMounts == page = "home" /\ ~user /\ (user' \/ page' = "login")
LogsOut == page = "home" /\ user /\ page' = "login"
StaysOnHome == page' = "home" /\ user'

\* C29: the home page is gated by the stored user session: a
\* successful login leaves the stored user that Home looks for, so that
\* Home stays without redirect; Home with no stored user redirects to
\* the login page; logout removes the stored user and goes to the login
\* page
C29_SessionGate ==
    [][/\ LoginSucceeds => sessionUser'
       /\ HomeMounts => (sessionUser <=> StaysOnHome)
       /\ LogsOut => ~sessionUser']_vars

\* Home is shown only with a stored user, and logout removes it
HomeGated == [][(HomeMounts => (sessionUser <=> StaysOnHome)) /\ (LogsOut => ~sessionUser')]_vars
\* a tab with an empty sessionStorage never gets past the mount of Home
NeverHomeAfterLogin == [][~sessionUser => ~user']_vars

=============================================================================
